---- MODULE Spec2Model ----
(***************************************************************************)
(* A model of the vbms ingestion pipeline: the CSV publisher               *)
(* (src/publisher.py, src/mqtt_classes/mqtt_publisher.py), the MQTT        *)
(* subscriber that writes to InfluxDB (src/subscriber.py,                  *)
(* src/mqtt_classes/mqtt_subscriber.py), the two launchers (main.py and    *)
(* the modules' own __main__ blocks), parse_datetime (src/utils.py) and    *)
(* the query API over the bucket (src/fast_api/api.py).                    *)
(*                                                                         *)
(* Representation of values:                                               *)
(*   - a CSV cell is Num(n) (text that float() accepts, n in units of      *)
(*     10^-5), Str(s) (text float() rejects) or NoneCell (the value        *)
(*     DictReader gives a column the line is too short for);               *)
(*   - a DateTime text "mo/d h:mi:s" is DateText(mo, d, h, mi, s), any     *)
(*     other text is a Str;                                                *)
(*   - a Python dict is a function on a set of strings;                    *)
(*   - bytes on the wire are a record: BadUtf8, NotJson or json_dumps(d).  *)
(***************************************************************************)
EXTENDS Integers, Sequences, FiniteSets, TLC

(***************************************************************************)
(* Bounds of the model.                                                    *)
(***************************************************************************)
MaxRows == 2
MaxFaults == 1
MaxForeign == 2
MaxRequests == 2
MaxApiRequests == 1
MaxReads == 2

(***************************************************************************)
(* Values.                                                                 *)
(***************************************************************************)
Num(n) == [t |-> "num", v |-> n]
Str(s) == [t |-> "str", s |-> s]
NoneCell == [t |-> "none"]
DateText(mo, d, h, mi, s) == [t |-> "date", f |-> <<mo, d, h, mi, s>>]

\* An exception in flight, or its absence.
NoExc == "none"

(***************************************************************************)
(* utils.parse_datetime                                                    *)
(***************************************************************************)
ReferenceYear == 2005
StrptimeDefaultYear == 1900

IsLeap(y) == (y % 4 = 0 /\ y % 100 # 0) \/ y % 400 = 0

DaysInMonth(y, m) ==
    IF m = 2 THEN (IF IsLeap(y) THEN 29 ELSE 28)
    ELSE IF m \in {4, 6, 9, 11} THEN 30 ELSE 31

ValidDate(y, m, d) == m \in 1..12 /\ d \in 1..DaysInMonth(y, m)

\* datetime + timedelta(days=1)
AddOneDay(y, m, d) ==
    IF d < DaysInMonth(y, m) THEN <<y, m, d + 1>>
    ELSE IF m < 12 THEN <<y, m + 1, 1>>
    ELSE <<y + 1, 1, 1>>

IsDateText(s) == s.t = "date"

\* datetime.strptime(dt_str, '%m/%d %H:%M:%S'): the year defaults to 1900.
strptime_full(s) ==
    IF IsDateText(s) /\ ValidDate(StrptimeDefaultYear, s.f[1], s.f[2])
       /\ s.f[3] \in 0..23 /\ s.f[4] \in 0..59 /\ s.f[5] \in 0..59
    THEN [ok |-> TRUE,
          dt |-> <<StrptimeDefaultYear, s.f[1], s.f[2], s.f[3], s.f[4], s.f[5]>>]
    ELSE [ok |-> FALSE]

\* dt_str.endswith('24:00:00')
EndsWith24(s) == IsDateText(s) /\ s.f[3] = 24 /\ s.f[4] = 0 /\ s.f[5] = 0

\* datetime.strptime(dt_str.split()[0], '%m/%d') + timedelta(days=1)
strptime_date_plus_day(s) ==
    IF ValidDate(StrptimeDefaultYear, s.f[1], s.f[2])
    THEN LET n == AddOneDay(StrptimeDefaultYear, s.f[1], s.f[2])
         IN  [ok |-> TRUE, dt |-> <<n[1], n[2], n[3], 0, 0, 0>>]
    ELSE [ok |-> FALSE]

\* dt_obj.replace(year=2005): ValueError when the day is not in that year.
replace_year(r) ==
    IF ~r.ok THEN r
    ELSE IF ValidDate(ReferenceYear, r.dt[2], r.dt[3])
    THEN [ok |-> TRUE,
          dt |-> <<ReferenceYear, r.dt[2], r.dt[3], r.dt[4], r.dt[5], r.dt[6]>>]
    ELSE [ok |-> FALSE]

\* [ok |-> TRUE, dt |-> <<y, mo, d, h, mi, s>>], or [ok |-> FALSE]: ValueError.
parse_datetime(dt_str) ==
    LET first == strptime_full(dt_str)
    IN  IF first.ok THEN replace_year(first)
        ELSE IF EndsWith24(dt_str) THEN replace_year(strptime_date_plus_day(dt_str))
        ELSE [ok |-> FALSE]

\* dt_obj.isoformat() + 'Z'
isoformatZ(dt) == [date |-> <<dt[1], dt[2], dt[3]>>, clock |-> <<dt[4], dt[5], dt[6]>>, tz |-> "Z"]

(***************************************************************************)
(* The fixed topology and the column names of publisher.process_csv        *)
(***************************************************************************)
Blocks == <<"BLOCK1", "BLOCK2">>
Zones == <<"OFFICEXSW", "OFFICEXSE", "OFFICEXNW", "OFFICEXNE", "CORRIDOR">>
Floors == <<"X1F", "X2F">>

NumCombos == Len(Blocks) * Len(Zones) * Len(Floors)

\* The k-th (block, zone, floor) of the three nested loops, k in 1..NumCombos.
Combo_descending(k) ==
    LET i == NumCombos - k
        perBlock == Len(Zones) * Len(Floors)
    IN  [block |-> Blocks[(i \div perBlock) + 1],
         zone  |-> Zones[((i % perBlock) \div Len(Floors)) + 1],
         floor |-> Floors[(i % Len(Floors)) + 1]]

Combo(k) ==
    LET i == k - 1
        perBlock == Len(Zones) * Len(Floors)
    IN  [block |-> Blocks[(i \div perBlock) + 1],
         zone  |-> Zones[((i % perBlock) \div Len(Floors)) + 1],
         floor |-> Floors[(i % Len(Floors)) + 1]]

zone_prefix(c) == c.block \o ":" \o c.zone \o c.floor
temp_key(c) == zone_prefix(c) \o ":Zone Mean Air Temperature"
zone_id(c) == c.block \o ":" \o c.zone \o ":" \o c.floor

THERMAL_TOPIC == "building/thermal_zones_metrics"
SITE_TOPIC_shared == "building/thermal_zones_metrics"

SITE_TOPIC == "building/site_metrics"

\* The fields of a thermal_zone payload, in the order the dict literal
\* evaluates them: <<field name, column name>>.
ThermalFieldColumns(c) ==
    LET zp == zone_prefix(c)
    IN << <<"mean_air_temperature", zp \o ":Zone Mean Air Temperature">>,
          <<"operative_temperature", zp \o ":Zone Operative Temperature">>,
          <<"air_relative_humidity", zp \o ":Zone Air Relative Humidity">>,
          <<"air_co2_concentration", zp \o ":Zone Air CO2 Concentration">>,
          <<"infiltration_air_change_rate", zp \o ":Zone Infiltration Air Change Rate">>,
          <<"mech_ventilation_air_changes",
            zp \o ":Zone Mechanical Ventilation Air Changes per Hour">>,
          <<"internal_latent_gain", zp \o ":Zone Total Internal Latent Gain Energy">>,
          <<"cooling_rate",
            zp \o " IDEAL LOADS AIR:Zone Ideal Loads Supply Air Total Cooling Rate">>,
          <<"heating_rate",
            zp \o " IDEAL LOADS AIR:Zone Ideal Loads Supply Air Total Heating Rate">>,
          <<"people_sensible_heat", zp \o ":Zone People Sensible Heating Rate">>,
          <<"thermal_comfort_pmv",
            "PEOPLE " \o zp \o ":Zone Thermal Comfort Fanger Model PMV">>,
          <<"thermal_comfort_ppd",
            "PEOPLE " \o zp \o ":Zone Thermal Comfort Fanger Model PPD">> >>

SiteFieldColumns ==
    << <<"interior_lights_electricity", "InteriorLights:Electricity">>,
       <<"facility_electricity", "Electricity:Facility">>,
       <<"outdoor_air_temp", "Site Site Outdoor Air Drybulb Temperature">>,
       <<"diffuse_solar_radiation", "Site Site Diffuse Solar Radiation Rate per Area">>,
       <<"direct_solar_radiation", "Site Site Direct Solar Radiation Rate per Area">> >>

\* float(row[col]): KeyError for a column the file does not have, TypeError
\* for None, ValueError for text that is no number.
FloatOfCell(row, col) ==
    IF col \notin DOMAIN row.cells THEN [exc |-> "KeyError"]
    ELSE LET cell == row.cells[col]
         IN  IF cell.t = "num" THEN [exc |-> NoExc, v |-> cell.v]
             ELSE IF cell.t = "none" THEN [exc |-> "TypeError"]
             ELSE [exc |-> "ValueError"]

\* The "fields" dict literal over fieldcols: the first conversion that
\* raises ends the evaluation.
BuildFields(row, fieldcols) ==
    LET failing == {i \in DOMAIN fieldcols : FloatOfCell(row, fieldcols[i][2]).exc # NoExc}
    IN  IF failing = {}
        THEN [exc |-> NoExc,
              fields |-> [f \in {fieldcols[i][1] : i \in DOMAIN fieldcols} |->
                  LET i == CHOOSE j \in DOMAIN fieldcols : fieldcols[j][1] = f
                  IN  Num(FloatOfCell(row, fieldcols[i][2]).v)]]
        ELSE LET i == CHOOSE j \in failing : \A j2 \in failing : j <= j2
             IN  [exc |-> FloatOfCell(row, fieldcols[i][2]).exc]

thermal_payload(c, timestamp, fields) ==
    [measurement |-> "thermal_zone",
     tags |-> [zone_id |-> zone_id(c)],
     time |-> timestamp,
     fields |-> fields]

site_payload(timestamp, fields) ==
    [measurement |-> "site_metrics", time |-> timestamp, fields |-> fields]

(***************************************************************************)
(* Bytes on the wire.                                                      *)
(***************************************************************************)
json_dumps(d) == [utf8 |-> TRUE, json |-> TRUE, doc |-> d]
BadUtf8 == [utf8 |-> FALSE]
NotJson == [utf8 |-> TRUE, json |-> FALSE]


(***************************************************************************)
(* The CSV files the publisher is run on.  csv.DictReader gives every row  *)
(* the keys of the header line, so a column is present in all rows of a    *)
(* file or in none.                                                        *)
(***************************************************************************)
ColumnsOf(fieldcols) == {fieldcols[i][2] : i \in DOMAIN fieldcols}
SiteColumns == ColumnsOf(SiteFieldColumns)
ComboA == Combo(1)
ComboB == Combo(NumCombos - Len(Floors))
OperativeColumn(c) == ThermalFieldColumns(c)[2][2]

HeaderSite == SiteColumns
HeaderA == SiteColumns \cup ColumnsOf(ThermalFieldColumns(ComboA))
HeaderAB == HeaderA \cup ColumnsOf(ThermalFieldColumns(ComboB))
HeaderABMissing == HeaderAB \ {OperativeColumn(ComboB)}
Headers == {HeaderSite, HeaderA, HeaderAB, HeaderABMissing}

GoodCell == Num(2150004)
RowOf(header, dt, badcol, badcell) ==
    [DateTime |-> dt,
     cells |-> [c \in header |-> IF c = badcol THEN badcell ELSE GoodCell]]

RowTemplates(header) ==
    { RowOf(header, DateText(1, 15, 12, 0, 0), "", GoodCell),
      RowOf(header, DateText(1, 15, 24, 0, 0), "", GoodCell),
      RowOf(header, Str("garbage"), "", GoodCell),
      RowOf(header, DateText(2, 30, 24, 0, 0), "", GoodCell),
      RowOf(header, DateText(1, 16, 1, 0, 0), temp_key(ComboA), Str("abc")),
      RowOf(header, DateText(1, 16, 2, 0, 0), SiteFieldColumns[5][2], NoneCell) }

SeqsUpTo(S, n) == UNION {[1..k -> S] : k \in 0..n}

CsvFiles ==
    UNION {{[header |-> h, rows |-> r] : r \in SeqsUpTo(RowTemplates(h), MaxRows)} :
           h \in Headers}

(***************************************************************************)
(* State.                                                                  *)
(***************************************************************************)
VARIABLES
    launch,             \* "main": python main.py; "module": publisher.py and
                        \* subscriber.py run as two processes
    csv,                \* the file at FILTERED_DATA_CSV
    mainPc,             \* main.py's main thread: "publisher", "join", "dead"
    faults,             \* connection losses, refusals and store failures so far
    foreign,            \* messages other clients have published so far
    queue,              \* messages the broker has yet to deliver to the subscriber
    subReadyAtPubStart, \* the subscriber held both subscriptions when
                        \* PublishMetrics was constructed
    \* the publish context
    pubPc, pubExc, rowIdx, comboIdx, timestamp,
    pubConnected,       \* MQTTPublisher.connected
    pubSock, pubLoop,   \* the paho client's socket and network-loop thread
    pubOut,             \* the message client.publish queued, not yet written
    published,          \* the calls of MQTTPublisher.publish, in order
    sent,               \* the messages written to the broker, in order
    \* the subscribe context
    subPc,
    subConnected,       \* MQTTSubscriber.connected
    subSubscribed,      \* MQTTSubscriber.subscribed
    subSock, subLoop,
    subTopics,          \* the broker's subscriptions of this session
    received_messages,  \* MQTTSubscriber.received_messages
    store,              \* the points of bucket gp2
    write_api, influx_client,
    \* one call of utils.parse_datetime
    dt_str, dt_obj,
    \* the requests the API has served, in order, with their responses
    api_log

envVars == <<launch, csv, mainPc, faults, foreign, queue, subReadyAtPubStart>>
pubVars == <<pubPc, pubExc, rowIdx, comboIdx, timestamp, pubConnected, pubSock,
             pubLoop, pubOut, published, sent>>
subVars == <<subPc, subConnected, subSubscribed, subSock, subLoop, subTopics,
             received_messages, store, write_api, influx_client>>
utilVars == <<dt_str, dt_obj>>
apiVars == <<api_log>>
vars == <<envVars, pubVars, subVars, utilVars, apiVars>>

NoTimestamp == [tz |-> "unset"]

\* parse_datetime has not returned or raised yet.
NotCalled == [called |-> FALSE]

InitState ==
    /\ mainPc = IF launch = "main" THEN "publisher" ELSE "none"
    /\ faults = 0 /\ foreign = 0 /\ queue = <<>> /\ subReadyAtPubStart = FALSE
    /\ pubPc = "new" /\ pubExc = NoExc /\ rowIdx = 0 /\ comboIdx = 0
    /\ timestamp = NoTimestamp
    /\ pubConnected = FALSE /\ pubSock = "none" /\ pubLoop = "none"
    /\ pubOut = <<>> /\ published = <<>> /\ sent = <<>>
    /\ subPc = "new" /\ subConnected = FALSE /\ subSubscribed = FALSE
    /\ subSock = "none" /\ subLoop = "none" /\ subTopics = {}
    /\ received_messages = <<>>
    /\ write_api = "none" /\ influx_client = "none"
    /\ dt_obj = NotCalled
    /\ api_log = <<>>

(***************************************************************************)
(* The end of a process: its daemon threads (main.py's subscriber thread,  *)
(* paho's network loops) are killed where they stand and the sockets they  *)
(* hold are closed by the system, with no DISCONNECT sent.                 *)
(***************************************************************************)
SockAtExit(sock) == IF sock \in {"connecting", "up"} THEN "reset" ELSE sock
LoopAtExit(loop) == IF loop = "running" THEN "killed" ELSE loop

KillSubscriberThread ==
    /\ subPc' = "killed"
    /\ subLoop' = LoopAtExit(subLoop)
    /\ subSock' = SockAtExit(subSock)
    /\ subTopics' = {}
    /\ queue' = <<>>
    /\ UNCHANGED <<subConnected, subSubscribed, received_messages, store,
                   write_api, influx_client>>

(***************************************************************************)
(* The publish context: run_publisher (main.py) or publisher.py's          *)
(* __main__, PublishMetrics and MQTTPublisher.                             *)
(***************************************************************************)
CurrentRow == csv.rows[rowIdx]

\* `if temp_key not in row: continue`
ComboPresent(row, c) == temp_key(c) \in DOMAIN row.cells

\* The next combination, from the k-th on, that the three loops do not skip;
\* NumCombos + 1 when the loops are over and the site payload is next.
NextPresent_off_by_one(row, k) ==
    LET left == {j \in (k + 1)..NumCombos : ComboPresent(row, Combo(j))}
    IN  IF left = {} THEN NumCombos + 1
        ELSE CHOOSE j \in left : \A j2 \in left : j <= j2

NextPresent(row, k) ==
    LET left == {j \in k..NumCombos : ComboPresent(row, Combo(j))}
    IN  IF left = {} THEN NumCombos + 1
        ELSE CHOOSE j \in left : \A j2 \in left : j <= j2

\* `except ValueError as e: print(...); continue`
DateErrorOutcome_uncaught == [pc |-> "finally", exc |-> "ValueError"]

DateErrorOutcome == [pc |-> "row", exc |-> NoExc]

\* PublishMetrics.__init__ and MQTTPublisher.connect: client.connect either
\* sends CONNECT and the loop is started, or raises and the exception is
\* printed; process_csv is entered either way.
PubConstruct ==
    /\ pubPc = "new"
    /\ mainPc \in {"publisher", "none"}
    /\ \/ /\ pubSock' = "connecting" /\ pubLoop' = "running"
          /\ UNCHANGED faults
       \/ /\ faults < MaxFaults
          /\ faults' = faults + 1
          /\ UNCHANGED <<pubSock, pubLoop>>
    /\ pubPc' = "row"
    /\ subReadyAtPubStart' = ({THERMAL_TOPIC, SITE_TOPIC} \subseteq subTopics)
    /\ UNCHANGED <<utilVars, apiVars, launch, csv, mainPc, foreign, queue, pubExc, rowIdx, comboIdx,
                   timestamp, pubConnected, pubOut, published, sent, subVars>>

\* on_connect of both wrappers: `if rc == 0: self.connected = True`, and
\* nothing but a print otherwise.  rc is the return code of the CONNACK.
CONNACK_ACCEPTED == 0
RefusedRcs == 1..5

on_connect_connected_any_rc(rc, connected) == TRUE

on_connect_connected(rc, connected) ==
    IF rc = CONNACK_ACCEPTED THEN TRUE ELSE connected

\* MQTTPublisher.on_connect, called by the network loop on CONNACK.
PubOnConnect ==
    /\ pubLoop = "running" /\ pubSock = "connecting"
    /\ \/ /\ pubConnected' = on_connect_connected(CONNACK_ACCEPTED, pubConnected)
          /\ pubSock' = "up"
          /\ UNCHANGED faults
       \/ /\ faults < MaxFaults
          /\ faults' = faults + 1
          /\ pubSock' = "down"
          /\ \E rc \in RefusedRcs : pubConnected' = on_connect_connected(rc, pubConnected)
    /\ UNCHANGED <<utilVars, apiVars, launch, csv, mainPc, foreign, queue, subReadyAtPubStart, pubPc,
                   pubExc, rowIdx, comboIdx, timestamp, pubLoop, pubOut,
                   published, sent, subVars>>

\* The connection is lost: the loop closes the socket (a queued QoS 0
\* message is discarded with it, so a publish() waiting for it waits for
\* ever) and calls on_disconnect next.
PubConnLost ==
    /\ pubLoop = "running" /\ pubSock = "up"
    /\ faults < MaxFaults
    /\ faults' = faults + 1
    /\ pubSock' = "lost"
    /\ pubOut' = <<>>
    /\ pubPc' = IF pubPc = "wait" THEN "hung" ELSE pubPc
    /\ UNCHANGED <<utilVars, apiVars, launch, csv, mainPc, foreign, queue, subReadyAtPubStart, pubExc,
                   rowIdx, comboIdx, timestamp, pubConnected, pubLoop, published,
                   sent, subVars>>

\* MQTTPublisher.on_disconnect
PubOnDisconnect ==
    /\ pubLoop = "running" /\ pubSock = "lost"
    /\ pubConnected' = FALSE
    /\ pubSock' = "down"
    /\ UNCHANGED <<utilVars, apiVars, envVars, pubPc, pubExc, rowIdx, comboIdx, timestamp, pubLoop,
                   pubOut, published, sent, subVars>>

\* The network loop started by loop_start() reconnects.
PubReconnect ==
    /\ pubLoop = "running" /\ pubSock = "down"
    /\ pubSock' = "connecting"
    /\ UNCHANGED <<utilVars, apiVars, envVars, pubPc, pubExc, rowIdx, comboIdx, timestamp,
                   pubConnected, pubLoop, pubOut, published, sent, subVars>>

\* `for row in csv_reader:` and the try block around parse_datetime.
PubRow ==
    /\ pubPc = "row"
    /\ IF rowIdx = Len(csv.rows)
       THEN /\ pubPc' = "finally"
            /\ UNCHANGED <<pubExc, rowIdx, comboIdx, timestamp>>
       ELSE LET row == csv.rows[rowIdx + 1]
                parsed == parse_datetime(row.DateTime)
            IN  /\ rowIdx' = rowIdx + 1
                /\ IF parsed.ok
                   THEN /\ timestamp' = isoformatZ(parsed.dt)
                        /\ comboIdx' = NextPresent(row, 1)
                        /\ pubPc' = "combo"
                        /\ UNCHANGED pubExc
                   ELSE /\ pubPc' = DateErrorOutcome.pc
                        /\ pubExc' = DateErrorOutcome.exc
                        /\ UNCHANGED <<comboIdx, timestamp>>
    /\ UNCHANGED <<utilVars, apiVars, envVars, pubConnected, pubSock, pubLoop, pubOut, published,
                   sent, subVars>>

\* What follows a return of self.mqtt_publisher.publish(...).
PublishReturns ==
    IF comboIdx <= NumCombos
    THEN /\ pubPc' = "combo"
         /\ comboIdx' = NextPresent(CurrentRow, comboIdx + 1)
    ELSE /\ pubPc' = "row"
         /\ comboIdx' = comboIdx

\* `result.wait_for_publish()`: with the message queued and the socket up,
\* the caller stands still until the network loop has written the message.
wait_for_publish_skipped == FALSE

wait_for_publish == TRUE

\* One payload is built and handed to MQTTPublisher.publish: the thermal
\* payload of the combination at comboIdx, or the site payload after the
\* loops.  A conversion that raises ends process_csv.  publish() hands the
\* message to the client when connected is set and returns None otherwise;
\* with the flag set and the socket already gone, wait_for_publish() raises
\* RuntimeError or never returns, depending on the paho release.
PubEvent ==
    /\ pubPc = "combo"
    /\ LET isSite == comboIdx > NumCombos
           built == IF isSite THEN BuildFields(CurrentRow, SiteFieldColumns)
                    ELSE BuildFields(CurrentRow, ThermalFieldColumns(Combo(comboIdx)))
           topic == IF isSite THEN SITE_TOPIC ELSE THERMAL_TOPIC
       IN  IF built.exc # NoExc
           THEN /\ pubPc' = "finally"
                /\ pubExc' = built.exc
                /\ UNCHANGED <<comboIdx, pubOut, published>>
           ELSE LET doc == IF isSite THEN site_payload(timestamp, built.fields)
                           ELSE thermal_payload(Combo(comboIdx), timestamp, built.fields)
                    msg == [topic |-> topic, payload |-> json_dumps(doc)]
                IN  /\ published' = Append(published, [row |-> rowIdx, topic |-> topic,
                                                       payload |-> msg.payload])
                    /\ IF ~pubConnected
                       THEN PublishReturns /\ UNCHANGED <<pubExc, pubOut>>
                       ELSE IF pubSock = "up"
                       THEN /\ pubOut' = <<msg>>
                            /\ IF wait_for_publish
                               THEN pubPc' = "wait" /\ UNCHANGED comboIdx
                               ELSE PublishReturns
                            /\ UNCHANGED pubExc
                       ELSE \/ /\ pubPc' = "finally"
                               /\ pubExc' = "RuntimeError"
                               /\ UNCHANGED <<comboIdx, pubOut>>
                            \/ /\ pubPc' = "hung"
                               /\ UNCHANGED <<pubExc, comboIdx, pubOut>>
    /\ UNCHANGED <<utilVars, apiVars, envVars, rowIdx, timestamp, pubConnected, pubSock, pubLoop,
                   sent, subVars>>

\* The network loop writes the queued message; the broker passes it on to
\* the subscriber if that holds a subscription to the topic; the publish()
\* waiting in wait_for_publish() returns.
PubLoopSend ==
    /\ pubLoop = "running" /\ pubSock = "up" /\ pubOut # <<>>
    /\ sent' = Append(sent, pubOut[1])
    /\ queue' = IF pubOut[1].topic \in subTopics THEN Append(queue, pubOut[1]) ELSE queue
    /\ pubOut' = <<>>
    /\ IF pubPc = "wait" THEN PublishReturns ELSE UNCHANGED <<pubPc, comboIdx>>
    /\ UNCHANGED <<utilVars, apiVars, launch, csv, mainPc, faults, foreign, subReadyAtPubStart, pubExc,
                   rowIdx, timestamp, pubConnected, pubSock, pubLoop, published,
                   subVars>>

\* KeyboardInterrupt in the thread that runs the publisher.  Inside the try
\* block of run_publisher it is caught and `finally` runs; before the try
\* block (time.sleep(1), the constructor) nothing catches it and the
\* process ends: with main.py that kills the subscriber thread too.
PubInterrupt ==
    /\ pubPc \in {"new", "row", "combo", "wait", "hung"}
    /\ mainPc \in {"publisher", "none"}
    /\ pubExc' = "KeyboardInterrupt"
    /\ IF pubPc = "new"
       THEN /\ pubPc' = "exited"
            /\ IF launch = "main"
               THEN mainPc' = "dead" /\ KillSubscriberThread
               ELSE UNCHANGED <<mainPc, queue, subVars>>
       ELSE /\ pubPc' = "finally"
            /\ UNCHANGED <<mainPc, queue, subVars>>
    /\ UNCHANGED <<utilVars, apiVars, launch, csv, faults, foreign, subReadyAtPubStart, rowIdx,
                   comboIdx, timestamp, pubConnected, pubSock, pubLoop, pubOut,
                   published, sent>>

\* MQTTPublisher.disconnect: `if self.client and self.connected:`
\* client.disconnect(); client.loop_stop().
PubDisconnects == pubConnected

\* `finally: processor.shutdown()`, then the end of run_publisher.  An
\* exception other than KeyboardInterrupt goes on to end the process; with
\* main.py the main thread otherwise goes to subscriber_thread.join().
PubShutdown ==
    /\ pubPc = "finally"
    /\ LET sockAfter == IF ~PubDisconnects THEN pubSock
                        ELSE IF pubSock = "up" THEN "closed"
                        ELSE IF pubSock = "lost" THEN "down" ELSE pubSock
           loopAfter == IF PubDisconnects THEN "stopped" ELSE pubLoop
           ends == launch = "module" \/ pubExc \notin {NoExc, "KeyboardInterrupt"}
       IN  /\ pubPc' = "exited"
           /\ pubConnected' = FALSE
           /\ pubOut' = IF PubDisconnects \/ ends THEN <<>> ELSE pubOut
           /\ pubSock' = IF ends THEN SockAtExit(sockAfter) ELSE sockAfter
           /\ pubLoop' = IF ends THEN LoopAtExit(loopAfter) ELSE loopAfter
           /\ IF launch = "main"
              THEN IF ends THEN mainPc' = "dead" /\ KillSubscriberThread
                   ELSE mainPc' = "join" /\ UNCHANGED <<queue, subVars>>
              ELSE UNCHANGED <<mainPc, queue, subVars>>
    /\ UNCHANGED <<utilVars, apiVars, launch, csv, faults, foreign, subReadyAtPubStart, pubExc, rowIdx,
                   comboIdx, timestamp, published, sent>>

\* KeyboardInterrupt while main.py waits in subscriber_thread.join(): the
\* process ends and its daemon threads with it.
MainInterrupt ==
    /\ launch = "main" /\ mainPc = "join"
    /\ mainPc' = "dead"
    /\ KillSubscriberThread
    /\ pubSock' = SockAtExit(pubSock)
    /\ pubLoop' = LoopAtExit(pubLoop)
    /\ pubOut' = <<>>
    /\ UNCHANGED <<utilVars, apiVars, launch, csv, faults, foreign, subReadyAtPubStart, pubPc, pubExc,
                   rowIdx, comboIdx, timestamp, pubConnected, published, sent>>

PubNext ==
    \/ PubConstruct \/ PubOnConnect \/ PubConnLost \/ PubOnDisconnect
    \/ PubReconnect \/ PubRow \/ PubEvent \/ PubLoopSend \/ PubInterrupt
    \/ PubShutdown \/ MainInterrupt

InitPub ==
    /\ launch \in {"main", "module"}
    /\ csv \in CsvFiles
    /\ dt_str = Str("")
    /\ store = {}
    /\ InitState

PubSpec == InitPub /\ [][PubNext]_vars

(***************************************************************************)
(* The subscribe context: run_subscriber (main.py) or subscriber.py's      *)
(* __main__, InfluxDBStorage and MQTTSubscriber.                           *)
(***************************************************************************)
\* round(x, 4), x in units of 10^-5; a tie goes to the even digit.
Round4_not_rounded(n) == n

Round4(n) ==
    LET r == n % 10
        down == n - r
    IN  IF r < 5 THEN down
        ELSE IF r > 5 THEN down + 10
        ELSE IF (down \div 10) % 2 = 0 THEN down ELSE down + 10

\* round(float(value), 4) of every item of data["fields"].
RoundedFields(fields) ==
    IF \E f \in DOMAIN fields : fields[f].t # "num"
    THEN [exc |-> "ValueError"]
    ELSE [exc |-> NoExc, fields |-> [f \in DOMAIN fields |-> Round4(fields[f].v)]]

\* The text of data["time"] is one the client can turn into a timestamp.
TimeParses(t) == "clock" \in DOMAIN t

\* The tags of a point that .tag() was never called on.
NoTags == [x \in {} |-> ""]

\* Point(...).tag(...).time(...).field(...): the point handed to
\* write_api.write, or the exception raised on the way.
ThermalPoint(data) ==
    IF ~({"measurement", "tags", "time", "fields"} \subseteq DOMAIN data)
    THEN [exc |-> "KeyError"]
    ELSE IF "zone_id" \notin DOMAIN data["tags"] THEN [exc |-> "KeyError"]
    ELSE LET rf == RoundedFields(data["fields"])
         IN  IF rf.exc # NoExc THEN [exc |-> rf.exc]
             ELSE [exc |-> NoExc,
                   point |-> [measurement |-> data["measurement"],
                              tags |-> [zone_id |-> data["tags"]["zone_id"]],
                              time |-> data["time"],
                              fields |-> rf.fields]]

SitePoint(data) ==
    IF ~({"measurement", "time", "fields"} \subseteq DOMAIN data)
    THEN [exc |-> "KeyError"]
    ELSE LET rf == RoundedFields(data["fields"])
         IN  IF rf.exc # NoExc THEN [exc |-> rf.exc]
             ELSE [exc |-> NoExc,
                   point |-> [measurement |-> data["measurement"],
                              tags |-> NoTags,
                              time |-> data["time"],
                              fields |-> rf.fields]]

PointKey(p) == <<p.measurement, p.tags, p.time>>

\* write_api.write(bucket="gp2", record=point) on an available store: the
\* point replaces the fields it names of the point with its measurement,
\* tags and time; a point with no field or a time that does not parse
\* writes nothing (the latter raises).
StoreAfterWrite_appends(st, p) == st \cup {p}

StoreAfterWrite(st, p) ==
    IF DOMAIN p.fields = {} THEN st
    ELSE LET old == {q \in st : PointKey(q) = PointKey(p)}
             merged == IF old = {} THEN p.fields
                       ELSE p.fields @@ (CHOOSE q \in old : TRUE).fields
         IN  (st \ old) \cup {[p EXCEPT !.fields = merged]}

\* The body of InfluxDBStorage.on_message_received for a payload that
\* decoded: json.loads, the dispatch on the topic and the write_* method.
\* Every exception is caught and printed.  storeUp: the write reaches the
\* store.
PointToWrite(msg) ==
    IF ~msg.payload.json THEN [exc |-> "JSONDecodeError"]
    ELSE IF msg.topic = THERMAL_TOPIC THEN ThermalPoint(msg.payload.doc)
    ELSE IF msg.topic = SITE_TOPIC THEN SitePoint(msg.payload.doc)
    ELSE [exc |-> "ignored"]

StoreAfterMessage_retries(st, msg, storeUp) ==
    LET w == PointToWrite(msg)
    IN  IF w.exc # NoExc THEN st
        ELSE IF ~TimeParses(w.point.time) THEN st
        ELSE StoreAfterWrite(st, w.point)

StoreAfterMessage(st, msg, storeUp) ==
    LET w == PointToWrite(msg)
    IN  IF w.exc # NoExc THEN st
        ELSE IF ~TimeParses(w.point.time) \/ ~storeUp THEN st
        ELSE StoreAfterWrite(st, w.point)

\* InfluxDBStorage.on_connect: the two subscribe calls.
OnConnectTopics == {THERMAL_TOPIC, SITE_TOPIC}

\* InfluxDBStorage() and start(): MQTTSubscriber.connect either sends
\* CONNECT and starts the loop, or prints the exception of client.connect;
\* the caller then idles in `while True: time.sleep(1)` either way.
SubStart ==
    /\ subPc = "new"
    /\ mainPc # "dead"
    /\ subPc' = "idle"
    /\ influx_client' = "open" /\ write_api' = "open"
    /\ \/ /\ subSock' = "connecting" /\ subLoop' = "running"
          /\ UNCHANGED faults
       \/ /\ faults < MaxFaults
          /\ faults' = faults + 1
          /\ UNCHANGED <<subSock, subLoop>>
    /\ UNCHANGED <<utilVars, apiVars, launch, csv, mainPc, foreign, queue, subReadyAtPubStart, pubVars,
                   subConnected, subSubscribed, subTopics, received_messages, store>>

\* MQTTSubscriber.on_connect: with rc = 0 the flag is set, self.topic is
\* None, and the callback InfluxDBStorage.on_connect subscribes; each
\* subscribe() passes its `self.client and self.connected` test.
SubOnConnect ==
    /\ subLoop = "running" /\ subSock = "connecting"
    /\ \/ /\ subConnected' = on_connect_connected(CONNACK_ACCEPTED, subConnected)
          /\ subSock' = "up"
          /\ subTopics' = subTopics \cup OnConnectTopics
          /\ subSubscribed' = (subSubscribed \/ OnConnectTopics # {})
          /\ UNCHANGED faults
       \/ /\ faults < MaxFaults
          /\ faults' = faults + 1
          /\ subSock' = "down"
          /\ \E rc \in RefusedRcs : subConnected' = on_connect_connected(rc, subConnected)
          /\ UNCHANGED <<subTopics, subSubscribed>>
    /\ UNCHANGED <<utilVars, apiVars, launch, csv, mainPc, foreign, queue, subReadyAtPubStart, pubVars,
                   subPc, subLoop, received_messages, store, write_api,
                   influx_client>>

\* The connection is lost: the broker forgets the session's subscriptions
\* and the messages it had for it.
SubConnLost ==
    /\ subLoop = "running" /\ subSock = "up"
    /\ faults < MaxFaults
    /\ faults' = faults + 1
    /\ subSock' = "lost"
    /\ subTopics' = {}
    /\ queue' = <<>>
    /\ UNCHANGED <<utilVars, apiVars, launch, csv, mainPc, foreign, subReadyAtPubStart, pubVars, subPc,
                   subConnected, subSubscribed, subLoop, received_messages, store,
                   write_api, influx_client>>

\* MQTTSubscriber.on_disconnect
SubOnDisconnect ==
    /\ subLoop = "running" /\ subSock = "lost"
    /\ subConnected' = FALSE
    /\ subSock' = "down"
    /\ UNCHANGED <<utilVars, apiVars, envVars, pubVars, subPc, subSubscribed, subLoop, subTopics,
                   received_messages, store, write_api, influx_client>>

\* The network loop started by loop_start() reconnects.
SubReconnect ==
    /\ subLoop = "running" /\ subSock = "down"
    /\ subSock' = "connecting"
    /\ UNCHANGED <<utilVars, apiVars, envVars, pubVars, subPc, subConnected, subSubscribed, subLoop,
                   subTopics, received_messages, store, write_api, influx_client>>

\* MQTTSubscriber.on_message, called by the network loop for the next
\* message.  payload.decode("utf-8") is outside every try block: bytes
\* that are no UTF-8 raise out of the callback and end the loop thread.
\* Otherwise the message is recorded and on_message_received handles it.
Deliver ==
    /\ subLoop = "running" /\ subSock = "up" /\ queue # <<>>
    /\ queue' = Tail(queue)
    /\ LET msg == Head(queue)
       IN  IF ~msg.payload.utf8
           THEN /\ subLoop' = "dead"
                /\ UNCHANGED <<received_messages, store, faults>>
           ELSE /\ received_messages' = Append(received_messages, msg)
                /\ UNCHANGED subLoop
                /\ \/ /\ store' = StoreAfterMessage(store, msg, TRUE)
                      /\ UNCHANGED faults
                   \/ /\ faults < MaxFaults
                      /\ PointToWrite(msg).exc = NoExc
                      /\ faults' = faults + 1
                      /\ store' = StoreAfterMessage(store, msg, FALSE)
    /\ UNCHANGED <<utilVars, apiVars, launch, csv, mainPc, foreign, subReadyAtPubStart, pubVars, subPc,
                   subConnected, subSubscribed, subSock, subTopics, write_api,
                   influx_client>>

\* MQTTSubscriber.disconnect: `if self.client and self.connected:`
SubDisconnects == subConnected

\* KeyboardInterrupt in subscriber.py's own process: `finally:
\* storage.stop()`, and the process ends.  (In main.py the subscriber runs
\* in a daemon thread, which no KeyboardInterrupt reaches.)
SubInterrupt ==
    /\ launch = "module" /\ subPc = "idle"
    /\ subPc' = "stopped"
    /\ LET sockAfter == IF ~SubDisconnects THEN subSock
                        ELSE IF subSock = "up" THEN "closed"
                        ELSE IF subSock = "lost" THEN "down" ELSE subSock
           loopAfter == IF SubDisconnects THEN "stopped" ELSE subLoop
       IN  /\ subSock' = SockAtExit(sockAfter)
           /\ subLoop' = LoopAtExit(loopAfter)
    /\ subConnected' = FALSE
    /\ subTopics' = {}
    /\ queue' = <<>>
    /\ write_api' = "closed"
    /\ influx_client' = "closed"
    /\ UNCHANGED <<utilVars, apiVars, launch, csv, mainPc, faults, foreign, subReadyAtPubStart, pubVars,
                   subSubscribed, received_messages, store>>

SubNext ==
    \/ SubStart \/ SubOnConnect \/ SubConnLost \/ SubOnDisconnect
    \/ SubReconnect \/ Deliver \/ SubInterrupt

(***************************************************************************)
(* Other clients of the broker: any bytes may arrive on the two topics.    *)
(***************************************************************************)
GoodRow == RowOf(HeaderA, DateText(1, 15, 12, 0, 0), "", GoodCell)
GoodTime == isoformatZ(parse_datetime(GoodRow.DateTime).dt)
GoodThermalDoc ==
    thermal_payload(ComboA, GoodTime,
                    BuildFields(GoodRow, ThermalFieldColumns(ComboA)).fields)
GoodSiteDoc == site_payload(GoodTime, BuildFields(GoodRow, SiteFieldColumns).fields)

ForeignDocs ==
    { GoodThermalDoc,
      GoodSiteDoc,
      [GoodThermalDoc EXCEPT !.fields = [f \in {"bogus"} |-> Num(100000)]],
      [GoodSiteDoc EXCEPT !.fields = [f \in {"outdoor_air_temp"} |-> Str("abc")]],
      [k \in {"measurement", "time"} |-> GoodSiteDoc[k]],
      [GoodThermalDoc EXCEPT !.measurement = "weather"] }

ForeignPayloads == {BadUtf8, NotJson} \cup {json_dumps(d) : d \in ForeignDocs}

ForeignPublish ==
    /\ foreign < MaxForeign
    /\ \E topic \in subTopics, payload \in ForeignPayloads :
           queue' = Append(queue, [topic |-> topic, payload |-> payload])
    /\ foreign' = foreign + 1
    /\ UNCHANGED <<utilVars, apiVars, launch, csv, mainPc, faults, subReadyAtPubStart, pubVars, subVars>>

(***************************************************************************)
(* The query API: src/fast_api/api.py.  An optional argument is None or    *)
(* Str(text); a time argument is None or an ISO text with an offset, of    *)
(* the shape of a timestamp with tz "Z" or "+00:00".                       *)
(***************************************************************************)
None == [t |-> "none"]

\* The Flux literals of the default range.
FluxEpoch == [flux |-> "0"]
FluxNow == [flux |-> "now()"]

\* format_time: a text that ends in 'Z' gets '+00:00' in its place,
\* fromisoformat reads it, isoformat writes it with '+00:00', and that is
\* replaced by 'Z'.
format_time(dt) ==
    IF dt = None THEN Str("")
    ELSE LET text == IF dt.tz = "Z" THEN [dt EXCEPT !.tz = "+00:00"] ELSE dt
             iso == [date |-> text.date, clock |-> text.clock, tz |-> text.tz]
         IN  [iso EXCEPT !.tz = IF iso.tz = "+00:00" THEN "Z" ELSE iso.tz]

\* `format_time(start_time) if start_time else "0"`
range_start_of(start_time) ==
    IF start_time # None THEN format_time(start_time) ELSE FluxEpoch

\* `format_time(end_time) if end_time else "now()"`
range_stop_of(end_time) ==
    IF end_time # None THEN format_time(end_time) ELSE FluxNow

TimeTuple(t) == t.date \o t.clock

\* a before b, for two tuples of the same length
TupleLess(a, b) ==
    \E i \in DOMAIN a : a[i] < b[i] /\ \A j \in 1..(i - 1) : a[j] = b[j]

\* |> range(start: ..., stop: ...): start included, stop excluded.  Every
\* time of the reference year lies before now().
InRange(t, start, stop) ==
    /\ IF start = FluxEpoch THEN t.date[1] >= 1970
       ELSE ~TupleLess(TimeTuple(t), TimeTuple(start))
    /\ IF stop = FluxNow THEN t.date[1] <= ReferenceYear
       ELSE TupleLess(TimeTuple(t), TimeTuple(stop))

\* `r.zone_id == "{zone_id}"` if zone_id else `true`
zone_filter(zone, p) ==
    IF zone # None
    THEN "zone_id" \in DOMAIN p.tags /\ p.tags.zone_id = zone.s
    ELSE TRUE

\* keep(columns: [...]) of the two pivot queries
ThermalKeep ==
    {"mean_air_temperature", "operative_temperature", "air_relative_humidity",
     "air_co2_concentration", "infiltration_air_change_rate",
     "mech_ventilation_air_changes", "internal_latent_gain", "cooling_rate",
     "heating_rate", "people_sensible_heat", "thermal_comfort_pmv",
     "thermal_comfort_ppd"}

SiteKeep ==
    {"interior_lights_electricity", "facility_electricity", "outdoor_air_temp",
     "diffuse_solar_radiation", "direct_solar_radiation"}

\* The records of a pivot query: one per point (the fields of a point share
\* its _time and its group), with _time, the tags and the kept fields as
\* columns; _field and _value are no columns of a pivoted record.
PivotRecord(p, keep) ==
    [c \in {"_time"} \cup DOMAIN p.tags \cup (keep \cap DOMAIN p.fields) |->
        IF c = "_time" THEN p.time
        ELSE IF c \in DOMAIN p.tags THEN Str(p.tags[c])
        ELSE Num(p.fields[c])]

build_thermal_zone_query(st, zone, start, stop) ==
    {PivotRecord(p, ThermalKeep) :
        p \in {q \in st : /\ q.measurement = "thermal_zone"
                          /\ zone_filter(zone, q)
                          /\ InRange(q.time, start, stop)}}

build_site_metrics_query_any_measurement(st, start, stop) ==
    {PivotRecord(p, SiteKeep) : p \in {q \in st : InRange(q.time, start, stop)}}

build_site_metrics_query(st, start, stop) ==
    {PivotRecord(p, SiteKeep) :
        p \in {q \in st : /\ q.measurement = "site_metrics"
                          /\ InRange(q.time, start, stop)}}

\* The order of the records of a result: table by table (one table per
\* zone_id), by time within a table.
ZoneRank(rec) ==
    IF "zone_id" \notin DOMAIN rec THEN 0
    ELSE IF \E k \in 1..NumCombos : zone_id(Combo(k)) = rec["zone_id"].s
    THEN CHOOSE k \in 1..NumCombos : zone_id(Combo(k)) = rec["zone_id"].s
    ELSE NumCombos + 1

RecordRank(rec) == <<ZoneRank(rec)>> \o TimeTuple(rec["_time"])

RECURSIVE RecordsInOrder(_)
RecordsInOrder(recs) ==
    IF recs = {} THEN <<>>
    ELSE LET first == CHOOSE r \in recs :
                          \A r2 \in recs : ~TupleLess(RecordRank(r2), RecordRank(r))
         IN  <<first>> \o RecordsInOrder(recs \ {first})

\* row.values.get(column)
ValueOrNone(rec, column) == IF column \in DOMAIN rec THEN rec[column] ELSE None

ThermalZoneData(rec) ==
    [zone_id |-> rec["zone_id"].s,
     time |-> rec["_time"],
     values |-> [f \in ThermalKeep |-> ValueOrNone(rec, f)]]

SiteMetricsData(rec) ==
    [time |-> rec["_time"],
     values |-> [f \in SiteKeep |-> ValueOrNone(rec, f)]]

\* row.values["zone_id"] raises KeyError for a record with no such column.
process_thermal_zone_data(recs) ==
    IF \E r \in recs : "zone_id" \notin DOMAIN r THEN [exc |-> "KeyError"]
    ELSE LET rows == RecordsInOrder(recs)
         IN  [exc |-> NoExc, data |-> [i \in DOMAIN rows |-> ThermalZoneData(rows[i])]]

process_site_metrics_data(recs) ==
    LET rows == RecordsInOrder(recs)
    IN  [exc |-> NoExc, data |-> [i \in DOMAIN rows |-> SiteMetricsData(rows[i])]]

\* An error of the store backend, raised by query_api.query or
\* delete_api.delete; str(e) is the failure message.
BackendError == "ApiException"

\* `except Exception as e: raise HTTPException(status_code=500,
\* detail=str(e))`; partial is what the handler had gathered by then.
on_exception_returns_partial(e, partial) == [status |-> 200, body |-> partial]

on_exception(e, partial) == [status |-> 500, detail |-> e]

\* `if data_type == "thermal_zone" or data_type is None:`
WantsThermal(data_type) == data_type = Str("thermal_zone") \/ data_type = None

\* `if data_type == "site_metrics" or data_type is None:`
WantsSite_unless_thermal(data_type) == data_type # Str("thermal_zone")

WantsSite(data_type) == data_type = Str("site_metrics") \/ data_type = None

\* The queries a get_data request makes.
QueriesOfGetData(req) ==
    (IF WantsThermal(req.data_type) THEN 1 ELSE 0)
        + (IF WantsSite(req.data_type) THEN 1 ELSE 0)

\* get_data; fail is the number of the query that raises, 0 for none.
get_data(st, req, fail) ==
    LET range_start == range_start_of(req.start_time)
        range_stop == range_stop_of(req.end_time)
        wantThermal == WantsThermal(req.data_type)
        wantSite == WantsSite(req.data_type)
        thermal ==
            IF ~wantThermal THEN [exc |-> NoExc, data |-> <<>>]
            ELSE IF fail = 1 THEN [exc |-> BackendError]
            ELSE process_thermal_zone_data(
                     build_thermal_zone_query(st, req.zone_id, range_start, range_stop))
        site ==
            IF ~wantSite THEN [exc |-> NoExc, data |-> <<>>]
            ELSE IF fail = QueriesOfGetData(req) THEN [exc |-> BackendError]
            ELSE process_site_metrics_data(
                     build_site_metrics_query(st, range_start, range_stop))
    IN  IF thermal.exc # NoExc THEN on_exception(thermal.exc, <<>>)
        ELSE IF req.data_type = Str("thermal_zone")
        THEN [status |-> 200, body |-> thermal.data]
        ELSE IF site.exc # NoExc THEN on_exception(site.exc, thermal.data)
        ELSE IF req.data_type = Str("site_metrics")
        THEN [status |-> 200, body |-> site.data]
        ELSE [status |-> 200, body |-> thermal.data \o site.data]

\* FluxRecord.get_field(): self["_field"]
get_field(rec) ==
    IF "_field" \in DOMAIN rec THEN [exc |-> NoExc, v |-> rec["_field"]]
    ELSE [exc |-> "KeyError"]

\* The dict comprehension over the records of build_site_metrics_query.
outdoor_temps_of(recs) ==
    IF \E r \in recs : get_field(r).exc # NoExc THEN [exc |-> "KeyError"]
    ELSE LET hits == {r \in recs : get_field(r).v = "outdoor_air_temp"}
         IN  [exc |-> NoExc,
              temps |-> [t \in {r["_time"] : r \in hits} |->
                            (CHOOSE r \in hits : r["_time"] = t)["_value"]]]

\* The records of indoor_query: _time, _value and the zone_id tag of every
\* mean_air_temperature value.
indoor_query(st, zone, start, stop) ==
    {[c \in {"_time", "_value"} \cup (DOMAIN p.tags \cap {"zone_id"}) |->
         IF c = "_time" THEN p.time
         ELSE IF c = "_value" THEN Num(p.fields["mean_air_temperature"])
         ELSE Str(p.tags[c])] :
        p \in {q \in st : /\ q.measurement = "thermal_zone"
                          /\ zone_filter(zone, q)
                          /\ InRange(q.time, start, stop)
                          /\ "mean_air_temperature" \in DOMAIN q.fields}}

\* indoor_temps_by_time[timestamp][record.values.get("zone_id")] = _value
indoor_temps_by_time_of(recs) ==
    [t \in {r["_time"] : r \in recs} |->
        LET at == {r \in recs : r["_time"] = t}
        IN  [z \in {ValueOrNone(r, "zone_id") : r \in at} |->
                (CHOOSE r \in at : ValueOrNone(r, "zone_id") = z)["_value"]]]

RECURSIVE SumOf(_, _)
SumOf(d, keys) ==
    IF keys = {} THEN 0
    ELSE LET k == CHOOSE x \in keys : TRUE
         IN  d[k].v + SumOf(d, keys \ {k})

\* float(statistics.mean(temps)): the sum over the count.
statistics_mean(d) == [t |-> "mean", sum |-> SumOf(d, DOMAIN d), n |-> Cardinality(DOMAIN d)]

RECURSIVE sorted(_)
sorted(times) ==
    IF times = {} THEN <<>>
    ELSE LET first == CHOOSE t \in times :
                          \A t2 \in times : ~TupleLess(TimeTuple(t2), TimeTuple(t))
         IN  <<first>> \o sorted(times \ {first})

TimestepTemperature(time, outdoor_temp, indoor_temps) ==
    [time |-> time, outdoor_temp |-> outdoor_temp, indoor_temps |-> indoor_temps]

\* get_temperatures; fail is the number of the query that raises, 0 for
\* none.  indoor_temps is None, the float [t |-> "mean", ...] or the dict
\* [t |-> "dict", d |-> ...]; a zone key of None fails the validation of
\* Dict[str, float].
get_temperatures(st, req, fail) ==
    LET range_start == range_start_of(req.start_time)
        range_stop == range_stop_of(req.end_time)
        outdoor ==
            IF fail = 1 THEN [exc |-> BackendError]
            ELSE outdoor_temps_of(build_site_metrics_query(st, range_start, range_stop))
        indoor ==
            IF fail = 2 THEN [exc |-> BackendError]
            ELSE [exc |-> NoExc,
                  by_time |-> indoor_temps_by_time_of(
                                  indoor_query(st, req.zone_id, range_start, range_stop))]
    IN  IF outdoor.exc # NoExc THEN on_exception(outdoor.exc, <<>>)
        ELSE IF indoor.exc # NoExc THEN on_exception(indoor.exc, <<>>)
        ELSE LET all_timestamps == DOMAIN outdoor.temps \cup DOMAIN indoor.by_time
                 order == sorted(all_timestamps)
                 outdoor_temp(t) ==
                     IF t \in DOMAIN outdoor.temps THEN outdoor.temps[t] ELSE None
                 indoor_data(t) ==
                     IF t \notin DOMAIN indoor.by_time THEN None
                     ELSE IF req.aggregate THEN statistics_mean(indoor.by_time[t])
                     ELSE [t |-> "dict", d |-> indoor.by_time[t]]
             IN  IF ~req.aggregate
                    /\ \E t \in DOMAIN indoor.by_time : None \in DOMAIN indoor.by_time[t]
                 THEN on_exception("ValidationError", <<>>)
                 ELSE [status |-> 200,
                       body |-> [i \in DOMAIN order |->
                                    TimestepTemperature(order[i], outdoor_temp(order[i]),
                                                        indoor_data(order[i]))]]

\* delete_all_data: the points of the two measurements from 1970-01-01 to
\* 2100-01-01 are deleted.
delete_all_data_thermal_only(st, fail) ==
    IF fail = 1
    THEN [store |-> st, response |-> [status |-> 500, detail |-> BackendError]]
    ELSE [store |-> {p \in st : p.measurement # "thermal_zone"},
          response |-> [status |-> 200,
                        body |-> [message |-> "All data has been deleted successfully"]]]

delete_all_data(st, fail) ==
    IF fail = 1
    THEN [store |-> st, response |-> on_exception(BackendError, <<>>)]
    ELSE [store |-> {p \in st : ~( /\ p.measurement \in {"thermal_zone", "site_metrics"}
                                   /\ p.time.date[1] \in 1970..2099 )},
          response |-> [status |-> 200,
                        body |-> [message |-> "All data has been deleted successfully"]]]

\* The query numbered fail is reached: the handler has not raised before.
GetDataReaches(st, req, fail) ==
    /\ fail <= QueriesOfGetData(req)
    /\ fail = 2 => get_data(st, [req EXCEPT !.data_type = Str("thermal_zone")], 0).status = 200

GetTemperaturesReaches(st, req, fail) ==
    fail = 2 => outdoor_temps_of(build_site_metrics_query(
                    st, range_start_of(req.start_time), range_stop_of(req.end_time))).exc = NoExc

\* The entry of a request in api_log: the operation, its arguments, the
\* query that failed, the response, and the number of messages the
\* subscriber had handled by then.
Served_first_only(op, req, fail, response) ==
    api_log' = Append(api_log, [op |-> op, args |-> req, failed |-> fail,
                                response |-> IF api_log = <<>> THEN response
                                             ELSE [status |-> 200, body |-> <<>>],
                                seen |-> Len(received_messages)])

Served(op, req, fail, response) ==
    api_log' = Append(api_log, [op |-> op, args |-> req, failed |-> fail,
                                response |-> response,
                                seen |-> Len(received_messages)])

\* GET /data/ with one of the requests reqs, while fewer than limit
\* requests have been served.
GetData(reqs, limit) ==
    /\ Len(api_log) < limit
    /\ \E req \in reqs, fail \in 0..2 :
           /\ GetDataReaches(store, req, fail)
           /\ fail # 0 => faults < MaxFaults
           /\ faults' = IF fail # 0 THEN faults + 1 ELSE faults
           /\ Served("get_data", req, fail, get_data(store, req, fail))
    /\ UNCHANGED <<utilVars, launch, csv, mainPc, foreign, queue, subReadyAtPubStart,
                   pubVars, subVars>>

\* GET /temperatures/
GetTemperatures(reqs, limit) ==
    /\ Len(api_log) < limit
    /\ \E req \in reqs, fail \in 0..2 :
           /\ GetTemperaturesReaches(store, req, fail)
           /\ fail # 0 => faults < MaxFaults
           /\ faults' = IF fail # 0 THEN faults + 1 ELSE faults
           /\ Served("get_temperatures", req, fail, get_temperatures(store, req, fail))
    /\ UNCHANGED <<utilVars, launch, csv, mainPc, foreign, queue, subReadyAtPubStart,
                   pubVars, subVars>>

\* DELETE /data/
DeleteAllData(limit) ==
    /\ Len(api_log) < limit
    /\ \E fail \in 0..1 :
           /\ fail # 0 => faults < MaxFaults
           /\ faults' = IF fail # 0 THEN faults + 1 ELSE faults
           /\ store' = delete_all_data(store, fail).store
           /\ Served("delete_all_data", None, fail, delete_all_data(store, fail).response)
    /\ UNCHANGED <<utilVars, launch, csv, mainPc, foreign, queue, subReadyAtPubStart,
                   pubVars, subPc, subConnected, subSubscribed, subSock, subLoop,
                   subTopics, received_messages, write_api, influx_client>>

(***************************************************************************)
(* Specifications.                                                         *)
(*   PubSpec: the publish context alone, over the files of CsvFiles.       *)
(*   SubSpec: the subscribe context alone, fed by other clients.           *)
(*   Spec:    both contexts and the broker between them, over two files.   *)
(*   ParseSpec, ApiSpec, ServiceSpec: parse_datetime alone, the API alone  *)
(*   and the API beside the subscriber; they follow further down, with     *)
(*   TimestepSpec (the publish context over the timesteps of a year) and   *)
(*   ReadSpec (the API alone, requests in a row).                          *)
(***************************************************************************)
EmptyCsv == [header |-> HeaderSite, rows |-> <<>>]

InitSub ==
    /\ launch = "module"
    /\ csv = EmptyCsv
    /\ dt_str = Str("")
    /\ store = {}
    /\ InitState

SubSpecNext == SubNext \/ ForeignPublish

SubSpec == InitSub /\ [][SubSpecNext]_vars

PipelineCsvFiles ==
    { [header |-> HeaderA, rows |-> <<GoodRow>>],
      [header |-> HeaderA,
       rows |-> <<RowOf(HeaderA, Str("garbage"), "", GoodCell),
                  RowOf(HeaderA, DateText(1, 16, 1, 0, 0), SiteFieldColumns[5][2], NoneCell)>>] }

Init ==
    /\ launch \in {"main", "module"}
    /\ csv \in PipelineCsvFiles
    /\ dt_str = Str("")
    /\ store = {}
    /\ InitState

Next == PubNext \/ SubNext

Spec == Init /\ [][Next]_vars

FairSubSpec ==
    /\ SubSpec
    /\ WF_vars(SubOnConnect) /\ WF_vars(SubOnDisconnect) /\ WF_vars(SubReconnect)

\* The publish context over the files of PipelineCsvFiles, its main thread
\* and its network loop running on: every step of theirs that stays
\* possible is taken.  Losses of the connection and interruptions are
\* under no such obligation.
InitFairPub ==
    /\ launch \in {"main", "module"}
    /\ csv \in PipelineCsvFiles
    /\ dt_str = Str("")
    /\ store = {}
    /\ InitState

FairPubSpec ==
    /\ InitFairPub /\ [][PubNext]_vars
    /\ WF_vars(PubConstruct) /\ WF_vars(PubRow) /\ WF_vars(PubEvent)
    /\ WF_vars(PubShutdown)
    /\ WF_vars(PubOnConnect) /\ WF_vars(PubOnDisconnect) /\ WF_vars(PubReconnect)
    /\ WF_vars(PubLoopSend)

(***************************************************************************)
(* utils.parse_datetime on its own: one call on one text.                  *)
(***************************************************************************)
Months == 0..13
Days == 0..32
Clocks == {<<0, 0, 0>>, <<12, 30, 0>>, <<24, 0, 0>>, <<24, 0, 1>>}

DateTimeTexts ==
    {DateText(mo, d, c[1], c[2], c[3]) : mo \in Months, d \in Days, c \in Clocks}
        \cup {Str("garbage")}

ParseCall ==
    /\ dt_obj = NotCalled
    /\ dt_obj' = parse_datetime(dt_str)
    /\ UNCHANGED <<dt_str, envVars, pubVars, subVars, apiVars>>

InitParse ==
    /\ launch = "module"
    /\ csv = EmptyCsv
    /\ dt_str \in DateTimeTexts
    /\ store = {}
    /\ InitState

ParseSpec == InitParse /\ [][ParseCall]_vars

(***************************************************************************)
(* The API on its own, over a bucket the writer has filled: points of two  *)
(* zones and of the site at two times, T1 before T2.                       *)
(***************************************************************************)
T1Row == RowOf(HeaderAB, DateText(1, 15, 12, 0, 0), temp_key(ComboB), Num(2300000))
T2Row == RowOf(HeaderAB, DateText(1, 15, 24, 0, 0), "", GoodCell)
T1 == isoformatZ(parse_datetime(T1Row.DateTime).dt)
T2 == isoformatZ(parse_datetime(T2Row.DateTime).dt)

ThermalPointOf(row, c) ==
    ThermalPoint(thermal_payload(c, isoformatZ(parse_datetime(row.DateTime).dt),
                                 BuildFields(row, ThermalFieldColumns(c)).fields)).point

SitePointOf(row) ==
    SitePoint(site_payload(isoformatZ(parse_datetime(row.DateTime).dt),
                           BuildFields(row, SiteFieldColumns).fields)).point

ApiPoints ==
    { ThermalPointOf(T1Row, ComboA), ThermalPointOf(T1Row, ComboB),
      ThermalPointOf(T2Row, ComboA), SitePointOf(T1Row), SitePointOf(T2Row) }

ApiStores == SUBSET ApiPoints

ApiZones == {None, Str(zone_id(ComboA))}
ApiStartTimes == {None, [T2 EXCEPT !.tz = "+00:00"]}
ApiEndTimes == {None, T2}

GetDataRequests ==
    [data_type : {None, Str("thermal_zone"), Str("site_metrics"), Str("weather")},
     zone_id : ApiZones, start_time : ApiStartTimes, end_time : ApiEndTimes]

GetTemperaturesRequests ==
    [zone_id : ApiZones, start_time : ApiStartTimes, end_time : ApiEndTimes,
     aggregate : BOOLEAN]

InitApi ==
    /\ launch = "module"
    /\ csv = EmptyCsv
    /\ dt_str = Str("")
    /\ store \in ApiStores
    /\ InitState

ApiNext ==
    \/ GetData(GetDataRequests, MaxApiRequests)
    \/ GetTemperatures(GetTemperaturesRequests, MaxApiRequests)
    \/ DeleteAllData(MaxApiRequests)

ApiSpec == InitApi /\ [][ApiNext]_vars

(***************************************************************************)
(* The API beside the running subscriber: deletions and raw fetches over   *)
(* the default range while messages arrive.                                *)
(***************************************************************************)
RawFetchRequest ==
    [data_type |-> None, zone_id |-> None, start_time |-> None, end_time |-> None]

ServiceNext ==
    \/ SubNext
    \/ ForeignPublish
    \/ GetData({RawFetchRequest}, MaxRequests)
    \/ DeleteAllData(MaxRequests)

ServiceSpec == InitSub /\ [][ServiceNext]_vars

(***************************************************************************)
(* The publish context over files of site columns whose rows are           *)
(* timesteps of a run over the whole year, the last one of the year        *)
(* included.                                                               *)
(***************************************************************************)
TimestepCsvFiles ==
    LET texts == { DateText(1, 15, 24, 0, 0), DateText(1, 16, 1, 0, 0),
                   DateText(2, 28, 24, 0, 0), DateText(12, 31, 23, 0, 0),
                   DateText(12, 31, 24, 0, 0) }
    IN  {[header |-> HeaderSite, rows |-> r] :
            r \in SeqsUpTo({RowOf(HeaderSite, dt, "", GoodCell) : dt \in texts}, MaxRows)}

InitTimesteps ==
    /\ launch \in {"main", "module"}
    /\ csv \in TimestepCsvFiles
    /\ dt_str = Str("")
    /\ store = {}
    /\ InitState

TimestepSpec == InitTimesteps /\ [][PubNext]_vars

(***************************************************************************)
(* The API alone, several requests in a row over the default range.        *)
(***************************************************************************)
ReadNext ==
    \/ GetData([data_type : {None, Str("thermal_zone")}, zone_id : ApiZones,
                start_time : {None}, end_time : {None}], MaxReads)
    \/ GetTemperatures([zone_id : {None}, start_time : {None}, end_time : {None},
                        aggregate : BOOLEAN], MaxReads)
    \/ DeleteAllData(MaxReads)

ReadSpec == InitApi /\ [][ReadNext]_vars

(***************************************************************************)
(* Vocabulary of the claims.                                               *)
(***************************************************************************)
RowParses(row) == parse_datetime(row.DateTime).ok

\* The k-th event of a row: the thermal_zone event of Combo(k) for k up to
\* NumCombos, the site_metrics event for k = NumCombos + 1.
EventGood(row, k) ==
    IF k <= NumCombos
    THEN ComboPresent(row, Combo(k))
         /\ BuildFields(row, ThermalFieldColumns(Combo(k))).exc = NoExc
    ELSE BuildFields(row, SiteFieldColumns).exc = NoExc

IsEvent(e, i, k) ==
    /\ e.row = i
    /\ IF k <= NumCombos
       THEN /\ e.payload.doc.measurement = "thermal_zone"
            /\ e.payload.doc.tags.zone_id = zone_id(Combo(k))
       ELSE e.payload.doc.measurement = "site_metrics"

EventCount(i, k) == Cardinality({j \in DOMAIN published : IsEvent(published[j], i, k)})

\* Every required column of the row is there and holds a number.
RowValid(row) ==
    /\ RowParses(row)
    /\ \A k \in 1..(NumCombos + 1) :
           (k <= NumCombos /\ ~ComboPresent(row, Combo(k))) \/ EventGood(row, k)

\* process_csv is through with row i.
RowCompleted(i) ==
    \/ i < rowIdx
    \/ i = rowIdx /\ pubPc = "row"
    \/ i = rowIdx /\ pubPc \in {"finally", "exited"} /\ pubExc = NoExc

\* process_csv has ended, and not by an interruption or a failed publish.
ProcessEnded ==
    pubPc \in {"finally", "exited"} /\ pubExc \notin {"KeyboardInterrupt", "RuntimeError"}

AllGoodEventsPublished ==
    \A i \in DOMAIN csv.rows :
        RowParses(csv.rows[i]) =>
            \A k \in 1..(NumCombos + 1) :
                EventGood(csv.rows[i], k) => EventCount(i, k) >= 1

AllCellsNumeric ==
    \A i \in DOMAIN csv.rows : \A c \in DOMAIN csv.rows[i].cells :
        csv.rows[i].cells[c].t = "num"

NoColumnMissing ==
    \A k \in 1..NumCombos :
        temp_key(Combo(k)) \in csv.header =>
            ColumnsOf(ThermalFieldColumns(Combo(k))) \subseteq csv.header

(***************************************************************************)
(* C1.  For every row process_csv is through with, whose DateTime parses   *)
(* and whose required columns are all present and numeric, publish was     *)
(* called with exactly one site_metrics payload, with exactly one          *)
(* thermal_zone payload for each combination of the topology whose         *)
(* temperature column the row has, with none for a combination whose       *)
(* temperature column it lacks, and with nothing else.                     *)
(***************************************************************************)
C1_OneEventPerPresentCombo ==
    \A i \in DOMAIN csv.rows :
        (RowCompleted(i) /\ RowValid(csv.rows[i])) =>
            /\ EventCount(i, NumCombos + 1) = 1
            /\ \A k \in 1..NumCombos :
                   EventCount(i, k) = IF ComboPresent(csv.rows[i], Combo(k)) THEN 1 ELSE 0
            /\ Cardinality({j \in DOMAIN published : published[j].row = i})
                   = 1 + Cardinality({k \in 1..NumCombos : ComboPresent(csv.rows[i], Combo(k))})

\* Two valid rows are done, in a file that has some combinations and lacks
\* others.
C1_Witness ==
    /\ csv.header = HeaderAB
    /\ Len(csv.rows) = 2
    /\ RowValid(csv.rows[1]) /\ RowValid(csv.rows[2])
    /\ RowCompleted(2)
    /\ Len(published) = 6

(***************************************************************************)
(* C2.  Every event process_csv produced is persisted: when the batch has  *)
(* ended normally, the subscriber held both subscriptions since before     *)
(* the publisher was constructed, no connection failed or was lost, no     *)
(* store write failed and nothing is in flight any more, the store holds   *)
(* a point with the family, tags and time of every event.                  *)
(***************************************************************************)
EventPersisted(e) ==
    \E p \in store :
        /\ p.measurement = e.payload.doc.measurement
        /\ p.time = e.payload.doc.time
        /\ p.tags = IF "tags" \in DOMAIN e.payload.doc
                    THEN e.payload.doc.tags ELSE NoTags

C2_NoEventLost ==
    ( /\ pubPc \in {"finally", "exited"} /\ pubExc = NoExc
      /\ subReadyAtPubStart /\ faults = 0
      /\ subPc = "idle" /\ subLoop = "running"
      /\ queue = <<>> /\ pubOut = <<>> )
    => \A j \in DOMAIN published : EventPersisted(published[j])

(***************************************************************************)
(* C3.  A row whose DateTime does not parse produces no event, and         *)
(* process_csv goes from it to the next row: no publish call ever carries  *)
(* the index of such a row, and the step that reads such a row leaves      *)
(* process_csv at the head of its loop with nothing published and no       *)
(* exception raised.                                                       *)
(***************************************************************************)
NoEventOfUnparsedRow ==
    \A j \in DOMAIN published : RowParses(csv.rows[published[j].row])

UnparsedRowStep ==
    ( /\ pubPc = "row" /\ rowIdx < Len(csv.rows)
      /\ ~RowParses(csv.rows[rowIdx + 1])
      /\ rowIdx' = rowIdx + 1 )
    => (pubPc' = "row" /\ pubExc' = NoExc /\ published' = published)

C3_BadDateSkipsRowOnly == []NoEventOfUnparsedRow /\ [][UnparsedRowStep]_vars

\* A row with a bad DateTime was passed over and the row after it published.
C3_Witness ==
    /\ Len(csv.rows) = 2
    /\ ~RowParses(csv.rows[1])
    /\ \E j \in DOMAIN published : published[j].row = 2

(***************************************************************************)
(* C4.  A combination with its temperature column present and another of   *)
(* its columns missing loses its own event only: when process_csv has      *)
(* ended over a file all of whose cells are numbers, every event whose     *)
(* own columns are all there has been published for every row that parses. *)
(***************************************************************************)
C4_MissingColumnSkipsEventOnly ==
    (ProcessEnded /\ AllCellsNumeric) => AllGoodEventsPublished

(***************************************************************************)
(* C5.  A cell that is no number loses the one event that uses it only:    *)
(* over a file that misses no required column, process_csv is never ended  *)
(* by a conversion error, and when it has ended every event whose own      *)
(* cells are all numbers has been published for every row that parses.     *)
(***************************************************************************)
C5_NonNumericSkipsEventOnly ==
    NoColumnMissing =>
        /\ pubExc \notin {"ValueError", "TypeError"}
        /\ ProcessEnded => AllGoodEventsPublished

(***************************************************************************)
(* C6.  A publish that fails, because the publisher is not connected or    *)
(* because the connection drops while it waits, returns to process_csv:    *)
(* no publish call raises into process_csv and none blocks for ever.       *)
(***************************************************************************)
C6_PublishFailureRecoverable == pubExc # "RuntimeError" /\ pubPc # "hung"

(***************************************************************************)
(* C7.  Whatever bytes arrive on the two topics, the message handler       *)
(* returns without raising, so the loop that calls it stays alive while    *)
(* the subscriber runs, and every point in the store is the point of a     *)
(* received message that is valid.                                         *)
(***************************************************************************)
C7_HandlerNeverRaises ==
    /\ subLoop # "dead"
    /\ \A p \in store : \E j \in DOMAIN received_messages :
           LET w == PointToWrite(received_messages[j])
           IN  w.exc = NoExc /\ PointKey(w.point) = PointKey(p)

(***************************************************************************)
(* C8.  Every persisted thermal_zone point carries field names of the      *)
(* thermal-zone vocabulary only, every persisted site_metrics point names  *)
(* of the site vocabulary only.                                            *)
(***************************************************************************)
ThermalVocabulary == {ThermalFieldColumns(ComboA)[i][1] : i \in DOMAIN ThermalFieldColumns(ComboA)}
SiteVocabulary == {SiteFieldColumns[i][1] : i \in DOMAIN SiteFieldColumns}

C8_ClosedFieldVocabulary ==
    \A p \in store :
        /\ p.measurement = "thermal_zone" => DOMAIN p.fields \subseteq ThermalVocabulary
        /\ p.measurement = "site_metrics" => DOMAIN p.fields \subseteq SiteVocabulary

(***************************************************************************)
(* C9.  While the subscriber runs, a connection that is not up (dropped,   *)
(* or never made because the first attempt at start() failed) comes up     *)
(* again, and no message is handled unless both topics are subscribed.     *)
(***************************************************************************)
SubHandlesOnlySubscribed ==
    received_messages' # received_messages => OnConnectTopics \subseteq subTopics

C9_ReconnectsAndResubscribes ==
    /\ []((subPc = "idle" /\ subSock # "up") => <>(subSock = "up" \/ subPc # "idle"))
    /\ [][SubHandlesOnlySubscribed]_vars

(***************************************************************************)
(* C10.  Once a context has ended, on whatever path, its MQTT connection   *)
(* is not left open and its network loop is not left running, and the      *)
(* writer's write API and store client are not left open.                  *)
(***************************************************************************)
C10_CleanShutdown ==
    /\ pubPc = "exited" =>
           pubSock \in {"none", "down", "closed"} /\ pubLoop \in {"none", "stopped"}
    /\ subPc \in {"stopped", "killed"} =>
           /\ subSock \in {"none", "down", "closed"} /\ subLoop \in {"none", "stopped"}
           /\ write_api # "open" /\ influx_client # "open"


(***************************************************************************)
(* C11.  For every month/day of the reference year, the call on            *)
(* "<month>/<day> 24:00:00" returns 00:00:00 of the day after the day      *)
(* that the call on "<month>/<day> 00:00:00" returns, the last day of the  *)
(* year included.                                                          *)
(***************************************************************************)
C11_Hour24IsNextMidnight ==
    ( /\ dt_obj # NotCalled
      /\ EndsWith24(dt_str)
      /\ ValidDate(ReferenceYear, dt_str.f[1], dt_str.f[2]) )
    => LET start == parse_datetime(DateText(dt_str.f[1], dt_str.f[2], 0, 0, 0))
           after == AddOneDay(start.dt[1], start.dt[2], start.dt[3])
       IN  /\ dt_obj.ok
           /\ dt_obj.dt = <<after[1], after[2], after[3], 0, 0, 0>>


(***************************************************************************)
(* C12.  When the subscriber is handed a message the publisher sent and    *)
(* the write reaches the store, the store holds exactly one point with     *)
(* the measurement, the tags (zone_id for thermal_zone, none for           *)
(* site_metrics) and the time of the event; the field names of that point  *)
(* are those of the event and every field value is the event's value       *)
(* rounded to 4 decimal places.                                            *)
(***************************************************************************)
\* r is n (both in units of 10^-5) rounded to 4 decimal places.
IsRounded4(r, n) == r % 10 = 0 /\ r - n \in -5..5

EventKey(doc) ==
    <<doc.measurement, IF "tags" \in DOMAIN doc THEN doc.tags ELSE NoTags, doc.time>>

RoundTripStep ==
    ( /\ queue # <<>>
      /\ \E j \in DOMAIN sent : sent[j] = Head(queue)
      /\ received_messages' = Append(received_messages, Head(queue))
      /\ faults' = faults )
    => LET doc == Head(queue).payload.doc
           pts == {p \in store' : PointKey(p) = EventKey(doc)}
       IN  /\ Cardinality(pts) = 1
           /\ \A p \in pts :
                  /\ DOMAIN p.fields = DOMAIN doc.fields
                  /\ \A f \in DOMAIN p.fields : IsRounded4(p.fields[f], doc.fields[f].v)

C12_RoundTrip == [][RoundTripStep]_vars

\* The thermal_zone event and the site_metrics event of a row were both
\* consumed and stored, with values that rounding changed.
C12_Witness ==
    /\ Len(received_messages) = 2
    /\ \E p \in store :
           /\ p.measurement = "thermal_zone"
           /\ p.tags = [zone_id |-> zone_id(ComboA)]
           /\ p.fields["mean_air_temperature"] = Round4(GoodCell.v)
           /\ p.fields["mean_air_temperature"] # GoodCell.v
    /\ \E p \in store : p.measurement = "site_metrics" /\ p.tags = NoTags


(***************************************************************************)
(* C13.  When the writer stores the point of a message, the store then     *)
(* holds exactly one point with that measurement, tags and time, it holds  *)
(* the values of this message for every field the message names, the       *)
(* other points are as they were, and handling the same message once more  *)
(* would leave the store as it is.                                         *)
(***************************************************************************)
Written(msg) ==
    /\ msg.payload.utf8
    /\ PointToWrite(msg).exc = NoExc
    /\ TimeParses(PointToWrite(msg).point.time)
    /\ DOMAIN PointToWrite(msg).point.fields # {}

IdempotentWriteStep ==
    ( /\ queue # <<>>
      /\ received_messages' = Append(received_messages, Head(queue))
      /\ faults' = faults
      /\ Written(Head(queue)) )
    => LET p == PointToWrite(Head(queue)).point
           pts == {q \in store' : PointKey(q) = PointKey(p)}
       IN  /\ Cardinality(pts) = 1
           /\ \A q \in pts : \A f \in DOMAIN p.fields :
                  f \in DOMAIN q.fields /\ q.fields[f] = p.fields[f]
           /\ store' \ pts = {q \in store : PointKey(q) # PointKey(p)}
           /\ StoreAfterMessage(store', Head(queue), TRUE) = store'

C13_IdempotentWrites == [][IdempotentWriteStep]_vars

\* Two messages with the same measurement, tags and time were stored: the
\* same message twice, or two messages with different fields.
C13_Witness ==
    /\ Len(received_messages) = 2
    /\ Written(received_messages[1]) /\ Written(received_messages[2])
    /\ PointKey(PointToWrite(received_messages[1]).point)
           = PointKey(PointToWrite(received_messages[2]).point)
    /\ faults = 0
    /\ Cardinality(store) = 1


(***************************************************************************)
(* C14.  A get_temperatures request, the store answering its queries,      *)
(* succeeds, also when the store holds site_metrics points in the range,   *)
(* and returns one row for each time at which the range holds an           *)
(* outdoor_air_temp value or a mean_air_temperature value (of the zone     *)
(* asked for, if one is), in ascending order of time; a row has no         *)
(* outdoor_temp exactly when there is no outdoor value at its time and no  *)
(* indoor_temps exactly when there is no indoor value at its time.         *)
(***************************************************************************)
OutdoorSeries(st, req) ==
    {p \in st : /\ p.measurement = "site_metrics"
                /\ "outdoor_air_temp" \in DOMAIN p.fields
                /\ InRange(p.time, range_start_of(req.start_time),
                           range_stop_of(req.end_time))}

IndoorSeries(st, req) ==
    {p \in st : /\ p.measurement = "thermal_zone"
                /\ "mean_air_temperature" \in DOMAIN p.fields
                /\ zone_filter(req.zone_id, p)
                /\ InRange(p.time, range_start_of(req.start_time),
                           range_stop_of(req.end_time))}

\* This step serves a get_temperatures request with no backend error.
TemperaturesServed ==
    /\ Len(api_log') = Len(api_log) + 1
    /\ api_log'[Len(api_log')].op = "get_temperatures"
    /\ api_log'[Len(api_log')].failed = 0

AlignedRowsStep ==
    TemperaturesServed =>
        LET e == api_log'[Len(api_log')]
            outdoor == OutdoorSeries(store, e.args)
            indoor == IndoorSeries(store, e.args)
            times == {p.time : p \in outdoor \cup indoor}
        IN  /\ e.response.status = 200
            /\ Len(e.response.body) = Cardinality(times)
            /\ \A i \in DOMAIN e.response.body :
                   LET row == e.response.body[i]
                   IN  /\ row.time \in times
                       /\ \A j \in DOMAIN e.response.body :
                              i < j => TupleLess(TimeTuple(row.time),
                                                 TimeTuple(e.response.body[j].time))
                       /\ IF \E p \in outdoor : p.time = row.time
                          THEN \E p \in outdoor :
                                   /\ p.time = row.time
                                   /\ row.outdoor_temp = Num(p.fields["outdoor_air_temp"])
                          ELSE row.outdoor_temp = None
                       /\ (row.indoor_temps = None) <=> ~(\E p \in indoor : p.time = row.time)

C14_AlignedTemperatureRows == [][AlignedRowsStep]_vars

(***************************************************************************)
(* C15.  A get_temperatures request, the store answering its queries,      *)
(* returns for every time that has indoor values a row whose indoor_temps  *)
(* is, with aggregate=false, the mapping of every zone_id that has a       *)
(* value at that time to that value and, with aggregate=true, the mean of  *)
(* exactly those values; a time with no zone has indoor_temps absent.      *)
(***************************************************************************)
RECURSIVE SumOfTemps(_)
SumOfTemps(points) ==
    IF points = {} THEN 0
    ELSE LET p == CHOOSE x \in points : TRUE
         IN  p.fields["mean_air_temperature"] + SumOfTemps(points \ {p})

IndoorTempsStep ==
    TemperaturesServed =>
        LET e == api_log'[Len(api_log')]
            indoor == IndoorSeries(store, e.args)
        IN  /\ indoor # {} => e.response.status = 200
            /\ \A t \in {p.time : p \in indoor} :
                   \E i \in DOMAIN e.response.body :
                       LET row == e.response.body[i]
                           at == {p \in indoor : p.time = t}
                       IN  /\ row.time = t
                           /\ IF e.args.aggregate
                              THEN /\ row.indoor_temps.t = "mean"
                                   /\ row.indoor_temps.n = Cardinality(at)
                                   /\ row.indoor_temps.sum = SumOfTemps(at)
                              ELSE /\ row.indoor_temps.t = "dict"
                                   /\ DOMAIN row.indoor_temps.d
                                          = {Str(p.tags.zone_id) : p \in at}
                                   /\ \A p \in at :
                                          row.indoor_temps.d[Str(p.tags.zone_id)]
                                              = Num(p.fields["mean_air_temperature"])
            /\ e.response.status = 200 =>
                   \A i \in DOMAIN e.response.body :
                       (\A p \in indoor : p.time # e.response.body[i].time)
                           => e.response.body[i].indoor_temps = None

C15_IndoorTempsPerZoneOrMean == [][IndoorTempsStep]_vars


(***************************************************************************)
(* C16.  A get_data request with data_type thermal_zone, site_metrics or   *)
(* none, the store answering its queries, returns: for thermal_zone one    *)
(* thermal-zone record for each thermal_zone point in the range (of the    *)
(* zone asked for, if one is) and no site record; for site_metrics one     *)
(* site record for each site_metrics point in the range and no             *)
(* thermal-zone record; for none both, every thermal-zone record before    *)
(* every site record.  A record carries the time and the kept fields of    *)
(* its point.                                                              *)
(***************************************************************************)
GetDataServed ==
    /\ Len(api_log') = Len(api_log) + 1
    /\ api_log'[Len(api_log')].op = "get_data"
    /\ api_log'[Len(api_log')].failed = 0
    /\ api_log'[Len(api_log')].args.data_type
           \in {None, Str("thermal_zone"), Str("site_metrics")}

PointsInRange(st, measurement, req) ==
    {p \in st : /\ p.measurement = measurement
                /\ measurement = "thermal_zone" => zone_filter(req.zone_id, p)
                /\ InRange(p.time, range_start_of(req.start_time),
                           range_stop_of(req.end_time))}

IsThermalRecord(r) == "zone_id" \in DOMAIN r

RecordOfPoint(r, p) ==
    /\ r.time = p.time
    /\ IsThermalRecord(r) => r.zone_id = p.tags.zone_id
    /\ \A f \in DOMAIN r.values :
           r.values[f] = IF f \in DOMAIN p.fields THEN Num(p.fields[f]) ELSE None

RawFetchStep ==
    GetDataServed =>
        LET e == api_log'[Len(api_log')]
            body == e.response.body
            thermalRows == {i \in DOMAIN body : IsThermalRecord(body[i])}
            siteRows == DOMAIN body \ thermalRows
            thermal == IF e.args.data_type = Str("site_metrics") THEN {}
                       ELSE PointsInRange(store, "thermal_zone", e.args)
            site == IF e.args.data_type = Str("thermal_zone") THEN {}
                    ELSE PointsInRange(store, "site_metrics", e.args)
        IN  /\ e.response.status = 200
            /\ Cardinality(thermalRows) = Cardinality(thermal)
            /\ \A p \in thermal : \E i \in thermalRows : RecordOfPoint(body[i], p)
            /\ Cardinality(siteRows) = Cardinality(site)
            /\ \A p \in site : \E i \in siteRows : RecordOfPoint(body[i], p)
            /\ \A i \in thermalRows, j \in siteRows : i < j

C16_RawFetchByFamily == [][RawFetchStep]_vars

\* A request with no data_type was answered from a bucket holding points
\* of both families in the range, with thermal-zone and site records.
C16_Witness ==
    /\ Len(api_log) = 1
    /\ api_log[1].op = "get_data" /\ api_log[1].failed = 0
    /\ api_log[1].args.data_type = None
    /\ api_log[1].response.status = 200
    /\ Len(api_log[1].response.body) >= 3
    /\ \E i, j \in DOMAIN api_log[1].response.body :
           /\ IsThermalRecord(api_log[1].response.body[i])
           /\ ~IsThermalRecord(api_log[1].response.body[j])

(***************************************************************************)
(* C17.  As claimed: whenever delete_all_data has returned success and     *)
(* the next request served is a raw fetch over the default range whose     *)
(* queries the store answers, that fetch returns an empty list, whatever   *)
(* the subscriber does meanwhile.                                          *)
(***************************************************************************)
DeleteThenFetch(i) ==
    /\ i \in DOMAIN api_log /\ i + 1 \in DOMAIN api_log
    /\ api_log[i].op = "delete_all_data" /\ api_log[i].response.status = 200
    /\ api_log[i + 1].op = "get_data" /\ api_log[i + 1].args = RawFetchRequest

EmptyResult == [status |-> 200, body |-> <<>>]

C17_FetchAfterDeleteEmpty ==
    \A i \in DOMAIN api_log :
        (DeleteThenFetch(i) /\ api_log[i + 1].failed = 0)
            => api_log[i + 1].response = EmptyResult

(***************************************************************************)
(* C17, amended.  Whenever delete_all_data has returned success and the    *)
(* next request served is a raw fetch over the default range whose         *)
(* queries the store answers, and the subscriber has handled no message    *)
(* between the two requests, the fetch returns an empty list;              *)
(* points under other measurement names stay in the bucket and are not     *)
(* returned.                                                               *)
(***************************************************************************)
C17_FetchAfterDeleteEmptyIfNoWrite ==
    \A i \in DOMAIN api_log :
        ( /\ DeleteThenFetch(i)
          /\ api_log[i + 1].failed = 0
          /\ api_log[i + 1].seen = api_log[i].seen )
        => api_log[i + 1].response = EmptyResult

\* A point of a queried measurement and a point of another measurement
\* were stored, then everything was deleted and fetched: the other point
\* is still in the bucket.
C17_Witness ==
    /\ DeleteThenFetch(1)
    /\ api_log[2].failed = 0
    /\ api_log[1].seen = 2 /\ api_log[2].seen = 2
    /\ faults = 0
    /\ \E j \in 1..2 :
           /\ Written(received_messages[j])
           /\ PointToWrite(received_messages[j]).point.measurement
                  \in {"thermal_zone", "site_metrics"}
    /\ \E p \in store : p.measurement = "weather"


(***************************************************************************)
(* C18.  Every request of get_data, get_temperatures or delete_all_data    *)
(* during which the store backend raised was answered with HTTP 500 and    *)
(* the message of that error, never with a list.                           *)
(***************************************************************************)
C18_BackendErrorIsHttp500 ==
    \A i \in DOMAIN api_log :
        api_log[i].failed # 0 =>
            api_log[i].response = [status |-> 500, detail |-> BackendError]

\* The second query of a get_data request failed after the first had
\* returned thermal-zone records.
C18_Witness ==
    /\ Len(api_log) = 1
    /\ api_log[1].op = "get_data"
    /\ api_log[1].failed = 2
    /\ PointsInRange(store, "thermal_zone", api_log[1].args) # {}
    /\ api_log[1].response.status = 500


(***************************************************************************)
(* C19.  A context whose first client.connect() raised does not go on:     *)
(* the publisher does not enter process_csv with no network loop (it has   *)
(* read no row and published nothing, and is ending), and the subscriber   *)
(* does not idle with no network loop.                                     *)
(***************************************************************************)
C19_StartupFailureIsFatal ==
    /\ (pubPc # "new" /\ pubLoop = "none") =>
           /\ pubPc \in {"finally", "exited"}
           /\ rowIdx = 0 /\ published = <<>>
    /\ (subPc # "new" /\ subLoop = "none") => subPc \in {"stopped", "killed"}

(***************************************************************************)
(* C20.  process_csv over a finite file comes to its end, by return or by  *)
(* an exception: no call of publish waits for ever, also when the          *)
(* connection is lost while a message waits to be written.                 *)
(***************************************************************************)
C20_ProcessCsvTerminates == <>(pubPc \in {"finally", "exited"})

(***************************************************************************)
(* C21.  Publishing is synchronous.  While a message handed to the client  *)
(* is not yet written, process_csv stands inside publish(): it is at no    *)
(* row and at no payload, and the client holds one message at most.  A     *)
(* publish() that handed a message over returns only in the step in which  *)
(* the network loop writes that very message, so the next event is handed  *)
(* over only after the one before it was sent; a message that leaves the   *)
(* client unwritten leaves its publish() without a return.                 *)
(***************************************************************************)
InProcessCsvLoop == pubPc \in {"row", "combo"}

OneInFlight ==
    /\ Len(pubOut) <= 1
    /\ pubOut # <<>> => ~InProcessCsvLoop
    /\ pubPc = "wait" =>
           /\ pubOut # <<>>
           /\ pubOut[1].payload = published[Len(published)].payload
           /\ pubOut[1].topic = published[Len(published)].topic

SynchronousStep ==
    /\ (pubPc = "wait" /\ InProcessCsvLoop') =>
           /\ sent' = Append(sent, pubOut[1])
           /\ pubOut' = <<>>
    /\ (pubOut = <<>> /\ pubOut' # <<>>) =>
           /\ pubPc = "combo" /\ pubConnected
           /\ published' = Append(published, [row |-> rowIdx,
                                              topic |-> pubOut'[1].topic,
                                              payload |-> pubOut'[1].payload])
    /\ (pubOut # <<>> /\ pubOut' # pubOut) =>
           /\ pubOut' = <<>>
           /\ (sent' = sent => ~InProcessCsvLoop')
    /\ pubPc = "hung" => ~InProcessCsvLoop'

C21_SynchronousPublish == []OneInFlight /\ [][SynchronousStep]_vars

\* The second event is with the client, the first one written before it.
C21_Witness ==
    /\ pubPc = "wait"
    /\ Len(sent) >= 1
    /\ Len(published) = Len(sent) + 1
    /\ sent[Len(sent)].payload = published[Len(sent)].payload

(***************************************************************************)
(* C22.  The calls of publish come in a fixed order.  Of two calls, the    *)
(* earlier one is for an earlier row, or for the same row and an earlier   *)
(* event of it: thermal_zone events by the place of their block in         *)
(* BLOCK1, BLOCK2, then of their zone in OFFICEXSW, OFFICEXSE, OFFICEXNW,  *)
(* OFFICEXNE, CORRIDOR, then of their floor in X1F, X2F, and the row's     *)
(* site_metrics event after all of them.                                   *)
(***************************************************************************)
IndexIn(seq, x) == CHOOSE i \in DOMAIN seq : seq[i] = x

Topology ==
    [block : {Blocks[i] : i \in DOMAIN Blocks},
     zone : {Zones[i] : i \in DOMAIN Zones},
     floor : {Floors[i] : i \in DOMAIN Floors}]

\* <<row, block, zone, floor>> of a call; the site event stands behind the
\* last block.
EventRank(e) ==
    IF e.payload.doc.measurement = "site_metrics"
    THEN <<e.row, Len(Blocks) + 1, 0, 0>>
    ELSE LET c == CHOOSE c \in Topology : zone_id(c) = e.payload.doc.tags.zone_id
         IN  <<e.row, IndexIn(Blocks, c.block), IndexIn(Zones, c.zone),
               IndexIn(Floors, c.floor)>>

Handled(msg) ==
    /\ queue # <<>> /\ msg = Head(queue)
    /\ received_messages' = Append(received_messages, msg)

WriteFailed(msg) ==
    /\ Handled(msg)
    /\ PointToWrite(msg).exc = NoExc
    /\ TimeParses(PointToWrite(msg).point.time)
    /\ faults' = faults + 1

NoRetryStep ==
    IF queue = <<>> THEN store' = store
    ELSE LET msg == Head(queue)
         IN  /\ WriteFailed(msg) =>
                    /\ store' = store
                    /\ queue' = Tail(queue)
                    /\ subLoop' = "running" /\ subSock' = "up"
                    /\ subConnected' = subConnected
             /\ store' # store =>
                    /\ Handled(msg)
                    /\ PointToWrite(msg).exc = NoExc
                    /\ store' = StoreAfterWrite(store, PointToWrite(msg).point)

C23_FailedWriteDropsMessage == [][NoRetryStep]_vars

\* The write of the first message failed and its point is not stored; the
\* message after it was written.
C23_Witness ==
    /\ Len(received_messages) = 2
    /\ faults = 1
    /\ LET first == PointToWrite(received_messages[1])
           second == PointToWrite(received_messages[2])
       IN  /\ first.exc = NoExc /\ TimeParses(first.point.time)
           /\ second.exc = NoExc
           /\ DOMAIN first.point.fields # {}
           /\ ~\E q \in store : PointKey(q) = PointKey(first.point)
           /\ \E q \in store : PointKey(q) = PointKey(second.point)

(***************************************************************************)
(* C24.  The topic of an event follows from its family alone.  Every call  *)
(* of publish, and every message written to the broker, with a payload of  *)
(* measurement thermal_zone is on building/thermal_zones_metrics, whatever *)
(* its zone_id, and every one with a payload of measurement site_metrics   *)
(* is on building/site_metrics; there is no other family and the zone_id   *)
(* is inside the payload's tags.                                           *)
(***************************************************************************)
TopicOfFamily(measurement) ==
    IF measurement = "thermal_zone" THEN "building/thermal_zones_metrics"
    ELSE IF measurement = "site_metrics" THEN "building/site_metrics"
    ELSE "no topic"

TopicByFamily(e) ==
    /\ e.payload.json
    /\ e.topic = TopicOfFamily(e.payload.doc.measurement)
    /\ e.payload.doc.measurement = "thermal_zone" =>
           "zone_id" \in DOMAIN e.payload.doc.tags

C24_TopicByFamilyAlone ==
    /\ \A j \in DOMAIN published : TopicByFamily(published[j])
    /\ \A j \in DOMAIN sent : TopicByFamily(sent[j])

\* Events of two zones and a site event were published and written.
C24_Witness ==
    /\ \E j, j2 \in DOMAIN sent :
           /\ sent[j].payload.doc.measurement = "thermal_zone"
           /\ sent[j2].payload.doc.measurement = "thermal_zone"
           /\ sent[j].payload.doc.tags.zone_id # sent[j2].payload.doc.tags.zone_id
    /\ \E j \in DOMAIN sent : sent[j].payload.doc.measurement = "site_metrics"

(***************************************************************************)
(* C25.  The tags of the persisted points.  A point of measurement         *)
(* thermal_zone has the one tag zone_id, and its value is                  *)
(* <block>:<zone>:<floor> of one combination of the topology, two          *)
(* combinations never sharing a value; a point of measurement site_metrics *)
(* has no tag; and that whatever the payloads delivered on the two topics. *)
(***************************************************************************)
ZoneIdsDistinct ==
    \A c1, c2 \in Topology : c1 # c2 => zone_id(c1) # zone_id(c2)

TagsOfFamily(p) ==
    /\ p.measurement = "thermal_zone" =>
           /\ DOMAIN p.tags = {"zone_id"}
           /\ \E c \in Topology : p.tags.zone_id = zone_id(c)
    /\ p.measurement = "site_metrics" => DOMAIN p.tags = {}

C25_PersistedTags == ZoneIdsDistinct /\ \A p \in store : TagsOfFamily(p)

(***************************************************************************)
(* C26.  The read operations are stateless and leave the store alone.  In  *)
(* the step that serves a get_data or a get_temperatures request, with a   *)
(* 200 or with a 500, the store after it is the store before it; and when  *)
(* the request served just before was the same request with the same       *)
(* outcome of the backend, hence against the same store, the response is   *)
(* the same.                                                               *)
(***************************************************************************)
ReadOps == {"get_data", "get_temperatures"}

ReadServed ==
    /\ Len(api_log') = Len(api_log) + 1
    /\ api_log'[Len(api_log')].op \in ReadOps

SameRequest(a, b) == a.op = b.op /\ a.args = b.args /\ a.failed = b.failed

StatelessReadStep ==
    ReadServed =>
        /\ store' = store
        /\ api_log # <<>> =>
               LET before == api_log[Len(api_log)]
                   now == api_log'[Len(api_log')]
               IN  SameRequest(before, now) => now.response = before.response

FamilyOfTopic(topic) ==
    IF topic = "building/thermal_zones_metrics" THEN "thermal_zone"
    ELSE IF topic = "building/site_metrics" THEN "site_metrics"
    ELSE "none"

OnlyTheTwoFamilies == \A p \in store : p.measurement \in {"thermal_zone", "site_metrics"}

FamilyOfTopicStep ==
    (queue # <<>> /\ received_messages' = Append(received_messages, Head(queue))) =>
        \A p \in store' \ store : p.measurement = FamilyOfTopic(Head(queue).topic)

C27_MeasurementFollowsTopic == []OnlyTheTwoFamilies /\ [][FamilyOfTopicStep]_vars

(***************************************************************************)
(* C28.  The connected flag of the two wrappers.  The flag goes up only in *)
(* an on_connect with rc = 0 and comes down only in an on_disconnect, by   *)
(* the network loop or in the course of disconnect().  A message reaches   *)
(* the client only from a publish() that found the flag up; a publish()    *)
(* that finds it down returns with nothing queued, written or delivered.   *)
(* A subscription is issued only with the flag up.  An on_connect with     *)
(* rc # 0 leaves the flag, the subscriptions and the subscribed mark as    *)
(* they were.                                                              *)
(***************************************************************************)
Accepted(sock, sockAfter) == sock = "connecting" /\ sockAfter = "up"
Refused(sock, sockAfter) == sock = "connecting" /\ sockAfter = "down"
LoopDisconnect(sock, sockAfter) == sock = "lost" /\ sockAfter = "down"

ConnectedFlagStep ==
    /\ (~pubConnected /\ pubConnected') => Accepted(pubSock, pubSock')
    /\ (~subConnected /\ subConnected') => Accepted(subSock, subSock')
    /\ (pubConnected /\ ~pubConnected') =>
           \/ LoopDisconnect(pubSock, pubSock')
           \/ pubPc = "finally" /\ pubPc' = "exited"
    /\ (subConnected /\ ~subConnected') =>
           \/ LoopDisconnect(subSock, subSock')
           \/ subPc = "idle" /\ subPc' = "stopped"
    /\ Refused(pubSock, pubSock') => pubConnected' = pubConnected
    /\ Refused(subSock, subSock') =>
           /\ subConnected' = subConnected
           /\ subTopics' = subTopics
           /\ subSubscribed' = subSubscribed
    /\ (pubOut' # pubOut /\ pubOut' # <<>>) => pubConnected
    /\ (Len(published') > Len(published) /\ ~pubConnected) =>
           /\ pubOut' = pubOut /\ sent' = sent /\ queue' = queue
           /\ pubPc' \in {"row", "combo"} /\ pubExc' = pubExc
    /\ ~(subTopics' \subseteq subTopics) => subConnected'
    /\ (~subSubscribed /\ subSubscribed') => subConnected'

C28_ConnectedFlag == [][ConnectedFlagStep]_vars

\* After a refused or a lost connection the publisher's flag is down and a
\* publish() has returned with nothing handed to the client, while the
\* subscriber's flag is up and its subscriptions are issued.
C28_Witness ==
    /\ faults >= 1
    /\ ~pubConnected /\ pubSock \in {"down", "connecting"}
    /\ published # <<>> /\ sent = <<>> /\ pubOut = <<>>
    /\ pubPc \in {"row", "combo"}
    /\ subConnected /\ subTopics # {}

(***************************************************************************)
(* C29.  Over a file whose rows are timesteps of the reference year in     *)
(* chronological order, <month>/<day> 24:00:00 standing for the end of     *)
(* that day, the events of a later row carry a later timestamp than the    *)
(* events of every row before it.                                          *)
(***************************************************************************)
RECURSIVE DaysBeforeMonth(_)
DaysBeforeMonth(m) ==
    IF m = 1 THEN 0 ELSE DaysBeforeMonth(m - 1) + DaysInMonth(ReferenceYear, m - 1)

IsTimestep(s) ==
    /\ IsDateText(s)
    /\ ValidDate(ReferenceYear, s.f[1], s.f[2])
    /\ \/ s.f[3] \in 0..23 /\ s.f[4] \in 0..59 /\ s.f[5] \in 0..59
       \/ s.f[3] = 24 /\ s.f[4] = 0 /\ s.f[5] = 0

\* Seconds from the start of the year to the instant the text stands for.
InstantOf(s) ==
    ((DaysBeforeMonth(s.f[1]) + s.f[2] - 1) * 24 + s.f[3]) * 3600 + s.f[4] * 60 + s.f[5]

Chronological(file) ==
    /\ \A i \in DOMAIN file.rows : IsTimestep(file.rows[i].DateTime)
    /\ \A i, j \in DOMAIN file.rows :
           i < j => InstantOf(file.rows[i].DateTime) < InstantOf(file.rows[j].DateTime)

EventTime(e) == TimeTuple(e.payload.doc.time)

C29_TimestampsIncreaseByRow ==
    Chronological(csv) =>
        \A j, j2 \in DOMAIN published :
            published[j].row < published[j2].row =>
                TupleLess(EventTime(published[j]), EventTime(published[j2]))

(***************************************************************************)
(* C30.  A get_data request whose data_type is given and is neither        *)
(* thermal_zone nor site_metrics makes no query: no failure of the store   *)
(* backend can reach it, and whatever the store holds it is answered with  *)
(* HTTP 200 and the empty list.                                            *)
(***************************************************************************)
UnknownDataType(req) ==
    req.data_type \notin {None, Str("thermal_zone"), Str("site_metrics")}

====
